---- MODULE Spec2Model ----
(***************************************************************************)
(* A model of microhcl (include/hcl/hcl.hpp): the Lexer as it is used to   *)
(* read key strings, the Value tree (find/set/erase/merge/mergeObjects)    *)
(* and the recursive-descent Parser run as a state machine over the token  *)
(* stream.                                                                 *)
(*                                                                         *)
(* A std::string is a sequence of one-character strings; a Value is a      *)
(* record [t, v] with t the Value::Type tag; an Object's v is a function   *)
(* from key strings to Values, a List's v a sequence of Values.            *)
(***************************************************************************)
EXTENDS Integers, Sequences, FiniteSets, TLC

----------------------------------------------------------------------------
(* Characters *)

Letters ==
    {"a", "b", "c", "d", "e", "f", "g", "h", "l", "o", "r", "s", "t", "u",
     "x", "E", "F", "H", "O", "T", "U", "W", "Z"}
Digits == {"0", "1", "2", "3", "4", "5", "6", "7", "8", "9"}

isalpha(c) == c \in Letters
isdigit(c) == c \in Digits

isWhitespace(c) == c \in {" ", "\t", "\r", "\n"}

isValidIdentChar(c) == isalpha(c) \/ isdigit(c) \/ c = "_" \/ c = "-" \/ c = "."

isNumberChar(c) ==
    isdigit(c) \/ c \in {".", "e", "E", "T", "Z", "_", ":", "-", "+"}

----------------------------------------------------------------------------
(* Tokens *)

Token(type, str, pos) == [type |-> type, str |-> str, pos |-> pos]

\* Position of the first "\n" at or after p, or Len(s) + 1.
RECURSIVE skipUntilNewLine(_, _)
skipUntilNewLine(s, p) ==
    IF p > Len(s) \/ s[p] = "\n" THEN p ELSE skipUntilNewLine(s, p + 1)

\* The "digits with single underscores between them" loop shared by
\* isInteger and isDouble: [p, ok, bad], bad when a '_' is not followed
\* by a digit.
RECURSIVE scanDigits(_, _, _)
scanDigits(s, p, ok) ==
    IF p <= Len(s) /\ isdigit(s[p])
    THEN IF p + 1 <= Len(s) /\ s[p + 1] = "_"
         THEN IF p + 2 <= Len(s) /\ isdigit(s[p + 2])
              THEN scanDigits(s, p + 2, TRUE)
              ELSE [p |-> p + 2, ok |-> TRUE, bad |-> TRUE]
         ELSE scanDigits(s, p + 1, TRUE)
    ELSE [p |-> p, ok |-> ok, bad |-> FALSE]

\* Where the digits start: after one sign, if there is one.
afterSign(s) == IF s[1] \in {"+", "-"} THEN 2 ELSE 1

\* Lexer isInteger: r is what the digit loop returns.
integerEnd(s, r) == ~r.bad /\ r.p = Len(s) + 1

isInteger(s) ==
    IF s = <<>> THEN FALSE
    ELSE integerEnd(s, scanDigits(s, afterSign(s), FALSE))

\* Lexer isDouble, stage by stage: r1 the integer part, r2 the integer part
\* and the fraction, r3 the digits of the exponent.
doubleEnd(s, r3) ==
    IF r3.bad \/ ~r3.ok THEN FALSE ELSE r3.p = Len(s) + 1

doubleExponent(s, r2) ==
    IF r2.bad THEN FALSE
    ELSE IF ~r2.ok THEN FALSE
    ELSE IF r2.p <= Len(s) /\ s[r2.p] \in {"e", "E"}
         THEN doubleEnd(s, scanDigits(s,
                  IF r2.p + 1 <= Len(s) /\ s[r2.p + 1] \in {"+", "-"}
                  THEN r2.p + 2 ELSE r2.p + 1, FALSE))
         ELSE r2.p = Len(s) + 1

doubleFraction(s, r1) ==
    IF r1.bad THEN FALSE
    ELSE doubleExponent(s, scanDigits(s,
             IF r1.p <= Len(s) /\ s[r1.p] = "." THEN r1.p + 1 ELSE r1.p,
             r1.ok))

isDouble(s) ==
    IF s = <<>> THEN FALSE
    ELSE doubleFraction(s, scanDigits(s, afterSign(s), FALSE))

\* The end of the greedy run of number characters starting at p.
RECURSIVE numberRunEnd(_, _)
numberRunEnd(s, p) ==
    IF p <= Len(s) /\ isNumberChar(s[p]) THEN numberRunEnd(s, p + 1) ELSE p

\* The token Lexer::nextNumber makes of the run it has read, q the position
\* after it.
numberToken(run, q) ==
    IF isInteger(run) THEN Token("NUMBER", run, q)
    ELSE IF isDouble(run) THEN Token("FLOAT", run, q)
    ELSE Token("ILLEGAL", <<"Invalid token">>, q)

\* Lexer::nextNumber with the already consumed prefix ("." or "-" or none).
nextNumber(s, p, prefix) ==
    numberToken(prefix \o SubSeq(s, p, numberRunEnd(s, p) - 1),
                numberRunEnd(s, p))

RECURSIVE identRunEnd(_, _)
identRunEnd(s, p) ==
    IF p <= Len(s) /\ isValidIdentChar(s[p]) THEN identRunEnd(s, p + 1) ELSE p

\* The token Lexer::nextValueToken makes of the identifier run w.
identToken(w, q) ==
    IF w = <<"t", "r", "u", "e">> THEN Token("BOOL", w, q)
    ELSE IF w = <<"f", "a", "l", "s", "e">> THEN Token("BOOL", w, q)
    ELSE Token("IDENT", w, q)

nextValueToken(s, p) ==
    IF p <= Len(s) /\ (isalpha(s[p]) \/ s[p] = "_")
    THEN identToken(SubSeq(s, p, identRunEnd(s, p + 1) - 1),
                    identRunEnd(s, p + 1))
    ELSE nextNumber(s, p, <<>>)

\* The printable characters in the order of their codes, from the space on
\* (the grave accent is written as its code, as the bytes outside the table).
Printable ==
    <<" ", "!", "\"", "#", "$", "%", "&", "'", "(", ")", "*", "+",
      ",", "-", ".", "/", "0", "1", "2", "3", "4", "5", "6", "7",
      "8", "9", ":", ";", "<", "=", ">", "?", "@", "A", "B", "C",
      "D", "E", "F", "G", "H", "I", "J", "K", "L", "M", "N", "O",
      "P", "Q", "R", "S", "T", "U", "V", "W", "X", "Y", "Z", "[",
      "\\", "]", "^", "_", "\\96", "a", "b", "c", "d", "e", "f", "g",
      "h", "i", "j", "k", "l", "m", "n", "o", "p", "q", "r", "s",
      "t", "u", "v", "w", "x", "y", "z", "{", "|", "}", "~">>

FirstPrintable == 32

\* The one-character string that stands for the byte n.
byteChar(n) ==
    IF n >= FirstPrintable /\ n < FirstPrintable + Len(Printable)
    THEN Printable[n - FirstPrintable + 1]
    ELSE IF n = 9 THEN "\t"
    ELSE IF n = 10 THEN "\n"
    ELSE IF n = 13 THEN "\r"
    ELSE "\\" \o ToString(n)

HexLower == <<"0", "1", "2", "3", "4", "5", "6", "7", "8", "9",
              "a", "b", "c", "d", "e", "f">>
HexUpper == <<"0", "1", "2", "3", "4", "5", "6", "7", "8", "9",
              "A", "B", "C", "D", "E", "F">>

isxdigit(c) == \E i \in 1..16 : c = HexLower[i] \/ c = HexUpper[i]

hexDigit(c) == (CHOOSE i \in 1..16 : c = HexLower[i] \/ c = HexUpper[i]) - 1

\* The bitwise operators of C on non-negative integers.
RECURSIVE bitAnd(_, _)
bitAnd(a, b) ==
    IF a = 0 \/ b = 0 THEN 0
    ELSE (a % 2) * (b % 2) + 2 * bitAnd(a \div 2, b \div 2)

RECURSIVE bitOr(_, _)
bitOr(a, b) ==
    IF a = 0 THEN b
    ELSE IF b = 0 THEN a
    ELSE (IF a % 2 = 1 \/ b % 2 = 1 THEN 1 ELSE 0)
         + 2 * bitOr(a \div 2, b \div 2)

\* The first code that is no code point (0x10FFFF + 1).
CodePointEnd == 1114112

\* ss >> std::hex >> x on the hex digits of an escape. unescape treats
\* every x above 0x10FFFF alike, and such an x is kept here as 0x110000.
RECURSIVE hexValue(_, _)
hexValue(codepoint, x) ==
    IF codepoint = <<>> THEN x
    ELSE hexValue(Tail(codepoint),
                  IF x * 16 + hexDigit(Head(codepoint)) >= CodePointEnd
                  THEN CodePointEnd
                  ELSE x * 16 + hexDigit(Head(codepoint)))

\* One uint8_t of buf: lead | ((x >> shift) & mask), 2^shift given as div.
bufByte(lead, x, div, mask) == bitOr(lead, bitAnd(x \div div, mask)) % 256

\* buf as unescape fills it for the code x, up to its terminating NUL.
unescapeBuf(x) ==
    IF x <= 127 THEN <<bufByte(0, x, 1, 127)>>
    ELSE IF x <= 2047
    THEN <<bufByte(192, x, 64, 223), bufByte(128, x, 1, 191)>>
    ELSE IF x <= 65535
    THEN <<bufByte(224, x, 4096, 239), bufByte(128, x, 64, 191),
           bufByte(128, x, 1, 191)>>
    ELSE IF x < CodePointEnd
    THEN <<bufByte(240, x, 262144, 247), bufByte(128, x, 4096, 191),
           bufByte(128, x, 64, 191), bufByte(128, x, 1, 191)>>
    ELSE <<>>

\* The std::string made of the char* buf: the bytes before the first NUL.
RECURSIVE cString(_)
cString(buf) ==
    IF buf = <<>> \/ Head(buf) = 0 THEN <<>>
    ELSE <<byteChar(Head(buf))>> \o cString(Tail(buf))

unescape(codepoint) == cString(unescapeBuf(hexValue(codepoint, 0)))

\* A counter braces that never leaves 0.
bracesNever(c, braces, dollar) == 0

\* A counter braces that any { raises.
bracesAnyBrace(c, braces, dollar) ==
    IF c = "{" THEN braces + 1 ELSE braces

\* The counter braces of nextStringDoubleQuote after the character c.
bracesOpened(c, braces, dollar) ==
    IF (braces = 0 /\ dollar /\ c = "{") \/ (braces > 0 /\ c = "{")
    THEN braces + 1 ELSE braces

\* braces once the character c has been read (a { opens, then a } closes).
bracesAfter(c, braces, dollar) ==
    IF bracesOpened(c, braces, dollar) > 0 /\ c = "}"
    THEN bracesOpened(c, braces, dollar) - 1
    ELSE bracesOpened(c, braces, dollar)

\* The characters an escape of one letter stands for.
SimpleEscapes == {"t", "n", "r", "\"", "'", "\\"}

escaped(e) ==
    IF e = "t" THEN "\t" ELSE IF e = "n" THEN "\n" ELSE IF e = "r" THEN "\r"
    ELSE e

\* The number of hex digits of \x, \u and \U.
escapeSize(e) == IF e = "x" THEN 2 ELSE IF e = "u" THEN 4 ELSE 8

\* How many of the size characters from p on are hex digits, one after the
\* other.
RECURSIVE hexRun(_, _, _)
hexRun(s, p, size) ==
    IF size > 0 /\ p <= Len(s) /\ isxdigit(s[p])
    THEN 1 + hexRun(s, p + 1, size - 1) ELSE 0

\* Position of the first character at or after p that is no blank.
RECURSIVE skipBlanks(_, _)
skipBlanks(s, p) ==
    IF p <= Len(s) /\ s[p] \in {" ", "\t", "\r", "\n"}
    THEN skipBlanks(s, p + 1) ELSE p

\* The loop of Lexer::nextStringDoubleQuote: p the next character to read,
\* acc the string s built so far.
RECURSIVE dqLoop(_, _, _, _, _)
RECURSIVE dqChar(_, _, _, _, _)
RECURSIVE dqEscape(_, _, _, _, _)
RECURSIVE dqCodepoint(_, _, _, _, _, _)

\* c has been read (p is after it) and braces brought up to date.
dqChar(s, p, acc, braces, c) ==
    IF c = "\\"
    THEN IF p > Len(s)
         THEN Token("ILLEGAL", <<"string has unknown escape sequence">>, p)
         ELSE dqEscape(s, p + 1, acc, braces, s[p])
    ELSE IF c = "\n" /\ braces = 0
    THEN Token("ILLEGAL",
               <<"found newline while parsing non-HIL string literal">>, p)
    ELSE IF c = "\"" /\ braces = 0 THEN Token("STRING", acc, p)
    ELSE dqLoop(s, p, Append(acc, c), braces, braces = 0 /\ c = "$")

\* The character e after a backslash has been read (p is after it).
dqEscape(s, p, acc, braces, e) ==
    IF e \in SimpleEscapes
    THEN dqLoop(s, p, Append(acc, escaped(e)), braces, FALSE)
    ELSE IF e \in {"x", "u", "U"}
    THEN dqCodepoint(s, p, acc, braces, escapeSize(e),
                     hexRun(s, p, escapeSize(e)))
    ELSE IF e = "\n"
    THEN IF braces = 0
         THEN Token("ILLEGAL", <<"literal not terminated">>, p)
         ELSE dqLoop(s, skipBlanks(s, p), acc, braces, FALSE)
    ELSE Token("ILLEGAL", <<"string has unknown escape sequence">>, p)

\* The hex digits of an escape: run of the size wanted were found.
dqCodepoint(s, p, acc, braces, size, run) ==
    IF run < size
    THEN Token("ILLEGAL", <<"string has unknown escape sequence">>, p + run)
    ELSE dqLoop(s, p + size, acc \o unescape(SubSeq(s, p, p + size - 1)),
                braces, FALSE)

dqLoop(s, p, acc, braces, dollar) ==
    IF p > Len(s) THEN Token("ILLEGAL", <<"string didn't end">>, p)
    ELSE dqChar(s, p + 1, acc, bracesAfter(s[p], braces, dollar), s[p])

\* Lexer::nextStringDoubleQuote, p at the opening quote.
nextStringDoubleQuote(s, p) ==
    IF p + 1 <= Len(s) /\ s[p + 1] = "\""
    THEN IF p + 2 > Len(s) \/ s[p + 2] # "\""
         THEN Token("STRING", <<>>, p + 2)
         ELSE Token("ILLEGAL", <<"string didn't end">>, p + 2)
    ELSE dqLoop(s, p + 1, <<>>, 0, FALSE)

\* Lexer::nextStringSingleQuote, p at the opening quote.
RECURSIVE singleQuoteBody(_, _, _)
singleQuoteBody(s, p, acc) ==
    IF p > Len(s)
    THEN Token("ILLEGAL", <<"string didn't end with ''?">>, p)
    ELSE IF s[p] = "'" THEN Token("STRING", acc, p + 1)
    ELSE IF s[p] = "\n"
    THEN Token("ILLEGAL", <<"found newline while parsing string literal">>,
               p + 1)
    ELSE singleQuoteBody(s, p + 1, Append(acc, s[p]))

nextStringSingleQuote(s, p) ==
    IF p + 1 <= Len(s) /\ s[p + 1] = "'"
    THEN IF p + 2 > Len(s) \/ s[p + 2] # "'"
         THEN Token("STRING", <<>>, p + 2)
         ELSE Token("ILLEGAL", <<"string didn't end with '' ?">>, p + 2)
    ELSE singleQuoteBody(s, p + 1, <<>>)

\* Lexer::columnNo() when the characters before position p have been read
\* with next(): how many were read since the last newline.
RECURSIVE columnNo(_, _)
columnNo(s, p) ==
    IF p = 1 THEN 0
    ELSE IF s[p - 1] = "\n" THEN 0
    ELSE columnNo(s, p - 1) + 1

\* Position after the letters and digits of the anchor starting at p.
RECURSIVE anchorEnd(_, _)
anchorEnd(s, p) ==
    IF p <= Len(s) /\ (isalpha(s[p]) \/ isdigit(s[p]))
    THEN anchorEnd(s, p + 1) ELSE p

\* The indentation loop of nextHereDoc at the start of a line: the position
\* after at most remain spaces, bad when another character comes first.
RECURSIVE skipIndent(_, _, _)
skipIndent(s, p, remain) ==
    IF p <= Len(s) /\ remain > 0
    THEN IF s[p] # " " THEN [p |-> p, bad |-> TRUE]
         ELSE skipIndent(s, p + 1, remain - 1)
    ELSE [p |-> p, bad |-> FALSE]

\* buffer when line is flushed into it.
flushLine(buffer, line) ==
    (IF buffer # <<>> THEN Append(buffer, "\n") ELSE buffer) \o line

\* The loop of Lexer::nextHereDoc: one turn consumes the character at p
\* (and, line being empty, the indentation after it), then looks at the
\* character that follows without consuming it.
RECURSIVE hereDocLoop(_, _, _, _, _, _)
RECURSIVE hereDocPeek(_, _, _, _, _, _)
RECURSIVE hereDocLine(_, _, _, _, _, _)

\* The turn's last step: line is what the turn has made of it.
hereDocLine(s, p, buffer, line, anchor, indent) ==
    IF line = anchor THEN Token("HEREDOC", Append(buffer, "\n"), p + 1)
    ELSE hereDocLoop(s, p, buffer, line, anchor, indent)

\* r is what the indentation loop returns.
hereDocPeek(s, r, buffer, line, anchor, indent) ==
    IF r.bad
    THEN Token("ILLEGAL", <<"expected heredoc to be properly indented">>, r.p)
    ELSE IF r.p > Len(s)
    THEN Token("ILLEGAL", <<"heredoc not terminated">>, r.p)
    ELSE IF s[r.p] = "\n"
    THEN hereDocLine(s, r.p, flushLine(buffer, line), <<>>, anchor, indent)
    ELSE hereDocLine(s, r.p, buffer, Append(line, s[r.p]), anchor, indent)

hereDocLoop(s, p, buffer, line, anchor, indent) ==
    IF p > Len(s) THEN Token("ILLEGAL", <<"heredoc not terminated">>, p)
    ELSE hereDocPeek(s, IF line = <<>> THEN skipIndent(s, p + 1, indent)
                            ELSE [p |-> p + 1, bad |-> FALSE],
                     buffer, line, anchor, indent)

\* nextHereDoc once the anchor is read: e is the position after it, q the
\* position of the newline wanted after it.
hereDocBody(s, anchor, e, q, indent) ==
    IF e > Len(s) THEN Token("ILLEGAL", <<"end of file reached">>, e)
    ELSE IF q > Len(s) \/ s[q] # "\n"
    THEN Token("ILLEGAL", <<"invalid characters in heredoc anchor">>, q)
    ELSE IF anchor = <<>>
    THEN Token("ILLEGAL", <<"zero-length heredoc anchor">>, q)
    ELSE hereDocLoop(s, q, <<>>, <<>>, anchor, indent)

\* nextHereDoc from the start a of the anchor, e the position after it.
hereDocAnchor(s, a, e, indent) ==
    hereDocBody(s, SubSeq(s, a, e - 1), e,
                IF e <= Len(s) /\ s[e] = "\r" THEN skipUntilNewLine(s, e)
                ELSE e,
                indent)

\* Lexer::nextHereDoc, p at the first '<'. When the input ends after "<<"
\* the character tested against '-' was never read; with either outcome
\* of the test the token is the same.
nextHereDoc(s, p) ==
    IF p + 1 > Len(s) \/ s[p + 1] # "<"
    THEN Token("ILLEGAL", <<"heredoc didn't start with '<<'?">>, p + 1)
    ELSE IF p + 2 <= Len(s) /\ s[p + 2] = "-"
    THEN hereDocAnchor(s, p + 3, anchorEnd(s, p + 3), columnNo(s, p + 2) - 2)
    ELSE hereDocAnchor(s, p + 2, anchorEnd(s, p + 2), 0)

\* Lexer::nextToken on the stream s read from position p (1-based).
RECURSIVE nextToken(_, _)
nextToken(s, p) ==
    IF p > Len(s) THEN Token("END_OF_FILE", <<>>, p)
    ELSE LET c == s[p]
             digitNext == p + 1 <= Len(s) /\ isdigit(s[p + 1])
         IN  IF isWhitespace(c) THEN nextToken(s, p + 1)
             ELSE IF c = "#" THEN nextToken(s, skipUntilNewLine(s, p))
             ELSE IF c = "=" THEN Token("ASSIGN", <<"=">>, p + 1)
             ELSE IF c = "+" THEN Token("ADD", <<"+">>, p + 1)
             ELSE IF c = "-"
                  THEN IF digitNext THEN nextNumber(s, p + 1, <<"-">>)
                       ELSE Token("SUB", <<"-">>, p + 1)
             ELSE IF c = "{" THEN Token("LBRACE", <<"{">>, p + 1)
             ELSE IF c = "}" THEN Token("RBRACE", <<"}">>, p + 1)
             ELSE IF c = "[" THEN Token("LBRACK", <<"[">>, p + 1)
             ELSE IF c = "]" THEN Token("RBRACK", <<"]">>, p + 1)
             ELSE IF c = "," THEN Token("COMMA", <<",">>, p + 1)
             ELSE IF c = "."
                  THEN IF digitNext THEN nextNumber(s, p + 1, <<".">>)
                       ELSE Token("PERIOD", <<".">>, p + 1)
             ELSE IF c = "\"" THEN nextStringDoubleQuote(s, p)
             ELSE IF c = "'" THEN nextStringSingleQuote(s, p)
             ELSE IF c = "<" THEN nextHereDoc(s, p)
             ELSE IF c = "/"
                  THEN IF p + 1 <= Len(s) /\ s[p + 1] = "/"
                       THEN nextToken(s, skipUntilNewLine(s, p + 1))
                       ELSE Token("ILLEGAL", <<"unterminated comment">>, p + 1)
             ELSE nextValueToken(s, p)

----------------------------------------------------------------------------
(* Values *)

Null == [t |-> "null", v |-> <<>>]
BoolV(b) == [t |-> "bool", v |-> b]
IntV(n) == [t |-> "int", v |-> n]
StringV(s) == [t |-> "string", v |-> s]
ListV(l) == [t |-> "list", v |-> l]
ObjectV(f) == [t |-> "object", v |-> f]

EmptyObject == ObjectV(<<>>)
EmptyList == ListV(<<>>)

valid(val) == val.t # "null"

\* A Value* into a tree is the sequence of child keys leading to it.
NoPtr == [found |-> FALSE, path |-> <<>>]
Ptr(path) == [found |-> TRUE, path |-> path]

RECURSIVE At(_, _)
At(val, path) ==
    IF path = <<>> THEN val ELSE At(val.v[Head(path)], Tail(path))

\* The tree with the Value at path replaced by v (the child is created when
\* the last key is absent, as std::unordered_map::operator[] does).
RECURSIVE Put(_, _, _)
Put(val, path, v) ==
    IF path = <<>> THEN v
    ELSE LET k == Head(path)
         IN  ObjectV([kk \in DOMAIN val.v \cup {k} |->
                        IF kk = k
                        THEN IF k \in DOMAIN val.v
                             THEN Put(val.v[k], Tail(path), v)
                             ELSE v
                        ELSE val.v[kk]])

hasChild(val, key) == key \in DOMAIN val.v

\* Value::setChild: [val, thrown].
setChild(val, key, v) ==
    LET self == IF ~valid(val) THEN EmptyObject ELSE val
    IN  IF self.t # "object" THEN [val |-> self, thrown |-> TRUE]
        ELSE [val |-> Put(self, <<key>>, v), thrown |-> FALSE]

\* push putting the new element first.
pushFront(val, v) ==
    IF ~valid(val) THEN [val |-> ListV(<<v>>), thrown |-> FALSE]
    ELSE IF val.t # "list" THEN [val |-> val, thrown |-> TRUE]
    ELSE [val |-> ListV(<<v>> \o val.v), thrown |-> FALSE]

\* Value::push: [val, thrown].
push(val, v) ==
    IF ~valid(val) THEN [val |-> ListV(<<v>>), thrown |-> FALSE]
    ELSE IF val.t # "list" THEN [val |-> val, thrown |-> TRUE]
    ELSE [val |-> ListV(Append(val.v, v)), thrown |-> FALSE]

\* The element types T of the converters, named by the variant they accept.
ElementTypes == {"bool", "int", "string", "list", "object"}

\* ValueConverter<T>::is for the T above.
isT(v, T) == v.t = T

\* Value::assureType<T>: TRUE when it throws.
assureType(v, T) == ~isT(v, T)

\* ValueConverter<T>::to: [thrown, out], out what the variant holds.
asT(v, T) ==
    IF assureType(v, T) THEN [thrown |-> TRUE, out |-> <<>>]
    ELSE [thrown |-> FALSE, out |-> v.v]

\* ValueConverter<std::vector<T>>::is: only the front of a non-empty list is
\* asked for its type.
isVector(v, T) ==
    IF v.t # "list" THEN FALSE
    ELSE IF v.v = <<>> THEN TRUE
    ELSE isT(Head(v.v), T)

\* The loop of ValueConverter<std::vector<T>>::to over the elements of list
\* from position i on, result the vector so far.
RECURSIVE toLoop(_, _, _, _)
toLoop(list, T, i, result) ==
    IF i > Len(list) THEN [thrown |-> FALSE, out |-> result]
    ELSE IF asT(list[i], T).thrown THEN [thrown |-> TRUE, out |-> <<>>]
    ELSE toLoop(list, T, i + 1, Append(result, asT(list[i], T).out))

\* ValueConverter<std::vector<T>>::to: [thrown, out].
asVector(v, T) ==
    IF asT(v, "list").thrown THEN [thrown |-> TRUE, out |-> <<>>]
    ELSE IF v.v = <<>> THEN [thrown |-> FALSE, out |-> <<>>]
    ELSE IF assureType(Head(v.v), T) THEN [thrown |-> TRUE, out |-> <<>>]
    ELSE toLoop(v.v, T, 1, <<>>)

\* What findChild does on a Value that is no Object: its assert ends the
\* process where asserts are compiled in; without them the union is read
\* through object_, which faults, finds nothing (setChild then throws) or
\* finds something (a reference is returned).
NonObjectIndex(val) ==
    {[val |-> val, thrown |-> FALSE, aborted |-> TRUE],
     [val |-> val, thrown |-> TRUE, aborted |-> FALSE],
     [val |-> val, thrown |-> FALSE, aborted |-> FALSE]}

\* Value::operator[](const std::string&): the set of [val, thrown, aborted]
\* the call can end in.
operatorIndex(val, key) ==
    LET self == IF ~valid(val) THEN EmptyObject ELSE val
    IN  IF self.t # "object" THEN NonObjectIndex(self)
        ELSE IF hasChild(self, key)
        THEN {[val |-> self, thrown |-> FALSE, aborted |-> FALSE]}
        ELSE {[val |-> setChild(self, key, Null).val,
               thrown |-> setChild(self, key, Null).thrown,
               aborted |-> FALSE]}

\* The loop of Value::find: cur is the pointer `current`, p the position of
\* the throwaway lexer in the key string, t1 the token of the part and t2
\* the token after it.
RECURSIVE findLoop(_, _, _, _)
RECURSIVE findPart(_, _, _, _)
RECURSIVE findNext(_, _, _, _, _)

findNext(val, cur, key, part, t2) ==
    IF t2.type = "PERIOD"
    THEN IF ~hasChild(At(val, cur), part) THEN NoPtr
         ELSE IF At(val, cur).v[part].t # "object" THEN NoPtr
         ELSE findLoop(val, Append(cur, part), key, t2.pos)
    ELSE IF t2.type = "END_OF_FILE"
         THEN IF hasChild(At(val, cur), part) THEN Ptr(Append(cur, part))
              ELSE NoPtr
    ELSE NoPtr

findPart(val, cur, key, t1) ==
    IF t1.type \notin {"IDENT", "STRING"} THEN NoPtr
    ELSE findNext(val, cur, key, t1.str, nextToken(key, t1.pos))

findLoop(val, cur, key, p) == findPart(val, cur, key, nextToken(key, p))

find(val, key) ==
    IF val.t # "object" THEN NoPtr ELSE findLoop(val, <<>>, key, 1)

has(val, key) == find(val, key).found

\* Value::get<T>(key) up to the conversion: the Value found, thrown when the
\* receiver is no Object or the key is not found.
getFound(val, tmp) ==
    IF tmp.found THEN [val |-> At(val, tmp.path), thrown |-> FALSE]
    ELSE [val |-> Null, thrown |-> TRUE]

get(val, key) ==
    IF val.t # "object" THEN [val |-> Null, thrown |-> TRUE]
    ELSE getFound(val, find(val, key))

\* The loop of Value::ensureValue: [val, path, thrown]; val carries the
\* Objects created on the way, also when the call ends in failwith.
RECURSIVE ensureLoop(_, _, _, _)
RECURSIVE ensurePart(_, _, _, _)
RECURSIVE ensureNext(_, _, _, _, _)

ensureNext(val, cur, key, part, t2) ==
    IF t2.type = "PERIOD"
    THEN IF hasChild(At(val, cur), part)
         THEN IF At(val, cur).v[part].t # "object"
              THEN [val |-> val, path |-> <<>>, thrown |-> TRUE]
              ELSE ensureLoop(val, Append(cur, part), key, t2.pos)
         ELSE ensureLoop(Put(val, Append(cur, part), EmptyObject),
                         Append(cur, part), key, t2.pos)
    ELSE IF t2.type = "END_OF_FILE"
         THEN IF hasChild(At(val, cur), part)
              THEN [val |-> val, path |-> Append(cur, part), thrown |-> FALSE]
              ELSE [val |-> Put(val, Append(cur, part), Null),
                    path |-> Append(cur, part), thrown |-> FALSE]
    ELSE [val |-> val, path |-> <<>>, thrown |-> TRUE]

ensurePart(val, cur, key, t1) ==
    IF t1.type \notin {"IDENT", "STRING"}
    THEN [val |-> val, path |-> <<>>, thrown |-> TRUE]
    ELSE ensureNext(val, cur, key, t1.str, nextToken(key, t1.pos))

ensureLoop(val, cur, key, p) == ensurePart(val, cur, key, nextToken(key, p))

ensureValue(val, key) ==
    IF ~valid(val) THEN ensureLoop(EmptyObject, <<>>, key, 1)
    ELSE IF val.t # "object"
    THEN [val |-> val, path |-> <<>>, thrown |-> TRUE]
    ELSE ensureLoop(val, <<>>, key, 1)

\* set leaving the entry as ensureValue made it.
assignNothing(r, v) == r

\* The assignment `*ensureValue(key) = v` of Value::set, r what ensureValue
\* returned.
assign(r, v) ==
    IF r.thrown THEN r
    ELSE [val |-> Put(r.val, r.path, v), path |-> r.path, thrown |-> FALSE]

\* Value::set: [val, path, thrown], path the returned pointer.
set(val, key, v) == assign(ensureValue(val, key), v)

\* An eraseChild that reports the entry erased and leaves it in place.
eraseChildKept(val, cur, key) ==
    [val |-> val, ret |-> hasChild(At(val, cur), key)]

\* Value::eraseChild on the Object at path cur: [val, ret].
eraseChild(val, cur, key) ==
    IF hasChild(At(val, cur), key)
    THEN [val |-> Put(val, cur,
                      ObjectV([kk \in DOMAIN At(val, cur).v \ {key} |->
                                  At(val, cur).v[kk]])),
          ret |-> TRUE]
    ELSE [val |-> val, ret |-> FALSE]

RECURSIVE eraseLoop(_, _, _, _)
RECURSIVE erasePart(_, _, _, _)
RECURSIVE eraseNext(_, _, _, _, _)

eraseNext(val, cur, key, part, t2) ==
    IF t2.type = "PERIOD"
    THEN IF ~hasChild(At(val, cur), part) THEN [val |-> val, ret |-> FALSE]
         ELSE IF At(val, cur).v[part].t # "object"
              THEN [val |-> val, ret |-> FALSE]
         ELSE eraseLoop(val, Append(cur, part), key, t2.pos)
    ELSE IF t2.type = "END_OF_FILE" THEN eraseChild(val, cur, part)
    ELSE [val |-> val, ret |-> FALSE]

erasePart(val, cur, key, t1) ==
    IF t1.type \notin {"IDENT", "STRING"} THEN [val |-> val, ret |-> FALSE]
    ELSE eraseNext(val, cur, key, t1.str, nextToken(key, t1.pos))

eraseLoop(val, cur, key, p) == erasePart(val, cur, key, nextToken(key, p))

\* Value::erase: [val, ret].
erase(val, key) ==
    IF val.t # "object" THEN [val |-> val, ret |-> FALSE]
    ELSE eraseLoop(val, <<>>, key, 1)

\* Value::merge for two Objects. std::unordered_map fixes no iteration order
\* for `for (kv : *v.object_)`, so the result is the set of trees a.merge(b)
\* can leave in a, one per order of b's keys.
RECURSIVE mergeOutcomes(_, _)
RECURSIVE mergeKeys(_, _, _)
RECURSIVE mergeEntry(_, _, _)
RECURSIVE mergeFound(_, _, _, _)

\* One iteration of the loop of Value::merge, for the entry (key, bv) of b,
\* tmp being find(key).
mergeFound(a, key, bv, tmp) ==
    IF tmp.found
    THEN IF At(a, tmp.path).t = "object" /\ bv.t = "object"
         THEN {Put(a, tmp.path, m) : m \in mergeOutcomes(At(a, tmp.path), bv)}
         ELSE {setChild(a, key, bv).val}
    ELSE {setChild(a, key, bv).val}

mergeEntry(a, key, bv) == mergeFound(a, key, bv, find(a, key))

mergeKeys(a, b, ks) ==
    IF ks = {} THEN {a}
    ELSE UNION {UNION {mergeKeys(a2, b, ks \ {k}) : a2 \in mergeEntry(a, k, b.v[k])}
                : k \in ks}

mergeOutcomes(a, b) == mergeKeys(a, b, DOMAIN b.v)

\* Value::merge (this != &v): the set of possible [val, ret].
merge(a, b) ==
    IF a.t # "object" \/ b.t # "object" THEN {[val |-> a, ret |-> FALSE]}
    ELSE {[val |-> m, ret |-> TRUE] : m \in mergeOutcomes(a, b)}

\* The wrapping loop of Value::mergeObjects over allButFirst: parent is the
\* local Object, ptr the pointer into it, r what ptr->set returned:
\* [val, thrown].
RECURSIVE wrapLoop(_, _, _, _)
RECURSIVE wrapNext(_, _, _, _, _)

wrapLast(parent, ptr, r) ==
    [val |-> Put(parent, ptr, r.val), thrown |-> r.thrown]

wrapNext(parent, ptr, rest, nestedValue, r) ==
    IF r.thrown THEN [val |-> parent, thrown |-> TRUE]
    ELSE wrapLoop(Put(parent, ptr, r.val), ptr \o r.path, Tail(rest),
                  nestedValue)

wrapLoop(parent, ptr, rest, nestedValue) ==
    IF Len(rest) = 1
    THEN wrapLast(parent, ptr, set(At(parent, ptr), rest[1], nestedValue))
    ELSE wrapNext(parent, ptr, rest, nestedValue,
                  set(At(parent, ptr), rest[1], EmptyObject))

\* mergeObjects forgetting the keys after the first.
wrapNone(keys, added) == [val |-> added, thrown |-> FALSE]

\* The first half of Value::mergeObjects: added wrapped in one Object per
\* key after the first.
wrap(keys, added) ==
    IF Len(keys) > 1 THEN wrapLoop(EmptyObject, <<>>, Tail(keys), added)
    ELSE [val |-> added, thrown |-> FALSE]

setResult(r) == [val |-> r.val, thrown |-> r.thrown]

\* mergeObjects pairing up with an existing List as with any other Value.
installAtPaired(self, front, added, existing) ==
    IF existing.found
    THEN setResult(set(self, front, ListV(<<At(self, existing.path), added>>)))
    ELSE setResult(set(self, front, added))

\* The second half of Value::mergeObjects: install added at keys.front(),
\* existing being find(keys.front()).
installAt(self, front, added, existing) ==
    IF existing.found
    THEN IF At(self, existing.path).t = "list"
         THEN [val |-> Put(self, existing.path,
                           push(At(self, existing.path), added).val),
               thrown |-> FALSE]
         ELSE setResult(set(self, front,
                            ListV(<<At(self, existing.path), added>>)))
    ELSE setResult(set(self, front, added))

installFront(self, front, added) ==
    installAt(self, front, added, find(self, front))

merged(w, r) == [val |-> r.val, added |-> w.val, thrown |-> r.thrown]

mergeWrapped(self, keys, added, w) ==
    IF w.thrown THEN [val |-> self, added |-> added, thrown |-> TRUE]
    ELSE merged(w, installFront(self, keys[1], w.val))

\* Value::mergeObjects(keys, added), keys non-empty: [val, added, thrown].
mergeObjects(self, keys, added) ==
    mergeWrapped(self, keys, added, wrap(keys, added))

----------------------------------------------------------------------------
(* The Value tree driven through its public operations *)

VARIABLES val, last, nops

valueVars == <<val, last, nops>>

\* The parser: where it is, its call stack, the current token, errorReason_,
\* the number of tokens read, the value being returned, hcl::parse's result.
VARIABLES pc, stack, tok, errs, ntok, rv, result

parserVars == <<pc, stack, tok, errs, ntok, rv, result>>

\* The lexer: the std::istream it reads, and the Token its last nextToken()
\* returned with the position the stream was left at.
VARIABLES input, lexed

lexerVars == <<input, lexed>>

vars == <<val, last, nops, pc, stack, tok, errs, ntok, rv, result,
          input, lexed>>

\* The stream holding the characters text, and no stream.
Stream(text) == [open |-> TRUE, text |-> text]
NoStream == [open |-> FALSE, text |-> <<>>]

\* No nextToken() call made yet: the stream is at its first character.
NoToken == Token("NONE", <<>>, 1)

\* Strings with an interpolation: a backslash escape in it, a quote in it, a
\* newline in it, and the same escape outside of one.
HilBackslash ==
    <<"\"", "$", "{", "\\", "\\", ".", "}", "\"">>

HilQuote ==
    <<"\"", "$", "{", "\"", "a", "\"", "}", "\"">>

HilNewline ==
    <<"\"", "$", "{", "a", "\n", " ", "a", "}", "\"">>

PlainBackslash ==
    <<"\"", "\\", "\\", ".", "\"">>

\* The heredocs of parser_test.cpp: "parse heredoc" and "parse indented
\* heredoc".
HereDocText ==
    <<"h", "o", "g", "e", " ", "=", " ", "<", "<", "E", "O", "F", "\n",
      "H", "e", "l", "l", "o", "\n", "W", "o", "r", "l", "d", "\n", "E",
      "O", "F", "\n">>

IndentedHereDocText ==
    <<"h", "o", "g", "e", " ", "=", " ", "<", "<", "-", "E", "O", "F",
      "\n", " ", " ", " ", " ", "H", "e", "l", "l", "o", "\n", " ", " ",
      " ", " ", " ", " ", "W", "o", "r", "l", "d", "\n", " ", " ", " ",
      " ", "E", "O", "F", "\n">>

MaxOps == 2

kA == <<"a">>
kB == <<"b">>
kC == <<"c">>
kD == <<"d">>
kAB == <<"a", ".", "b">>
kAC == <<"a", ".", "c">>
kPath == <<"a", " ", ".", "b">>
kSlash == <<"a", "/">>
kTrue == <<"t", "r", "u", "e">>
kFalse == <<"f", "a", "l", "s", "e">>

\* Key strings handed to the operations: identifiers, dotted identifiers,
\* a string the lexer reads as the path a . b, one it cannot read as a key
\* at all, and a reserved word.
Keys == {kA, kB, kAB, kAC, kPath, kSlash, kTrue, kFalse}

KeyLists == {<<kA>>, <<kB>>, <<kAB>>, <<kPath>>, <<kSlash>>,
             <<kA, kB>>, <<kA, kB, kC>>, <<kA, kPath>>}

SetArgs == {IntV(1), IntV(2), Null, EmptyObject}

AddedArgs == {IntV(1), ObjectV(kB :> IntV(1)), ListV(<<IntV(2)>>)}

MergeArgs ==
    {ObjectV(kA :> ObjectV(kB :> IntV(9) @@ kD :> IntV(3))),
     ObjectV(kSlash :> ObjectV(kC :> IntV(2))),
     ObjectV(kA :> IntV(2) @@ kPath :> ObjectV(kC :> IntV(2))),
     ObjectV(kPath :> ObjectV(kC :> IntV(2))),
     IntV(1)}

\* Values the caller can build with the constructors before the first call.
InitValues ==
    {Null, EmptyObject, EmptyList, IntV(1), StringV(kA),
     ListV(<<BoolV(FALSE), BoolV(TRUE)>>), ListV(<<IntV(1), StringV(kA)>>),
     ObjectV(kA :> ObjectV(kB :> IntV(1) @@ kC :> IntV(2))),
     ObjectV(kA :> ListV(<<IntV(1), IntV(2)>>) @@ kB :> IntV(1)),
     ObjectV(kSlash :> ObjectV(kB :> IntV(1)) @@ kAB :> EmptyObject)}

\* What the caller saw of the last call: the operation and its arguments, the
\* Value before it, whether it threw, whether it ended the process (a failed
\* assert or a fault), what it returned and, for a conversion, the converted
\* elements.
NoOp == [op |-> "none", key |-> <<>>, keys |-> <<>>, arg |-> Null,
         pre |-> Null, thrown |-> FALSE, ret |-> FALSE, aborted |-> FALSE,
         out |-> <<>>]

Set(key, v) ==
    /\ nops < MaxOps
    /\ ~last.aborted
    /\ \E r \in {set(val, key, v)} :
           /\ val' = r.val
           /\ last' = [op |-> "set", key |-> key, keys |-> <<>>, arg |-> v,
                       pre |-> val, thrown |-> r.thrown, ret |-> ~r.thrown,
                       aborted |-> FALSE, out |-> <<>>]
    /\ nops' = nops + 1
    /\ UNCHANGED <<parserVars, lexerVars>>

Erase(key) ==
    /\ nops < MaxOps
    /\ ~last.aborted
    /\ \E r \in {erase(val, key)} :
           /\ val' = r.val
           /\ last' = [op |-> "erase", key |-> key, keys |-> <<>>, arg |-> Null,
                       pre |-> val, thrown |-> FALSE, ret |-> r.ret,
                       aborted |-> FALSE, out |-> <<>>]
    /\ nops' = nops + 1
    /\ UNCHANGED <<parserVars, lexerVars>>

Merge(b) ==
    /\ nops < MaxOps
    /\ ~last.aborted
    /\ \E r \in merge(val, b) :
          /\ val' = r.val
          /\ last' = [op |-> "merge", key |-> <<>>, keys |-> <<>>, arg |-> b,
                      pre |-> val, thrown |-> FALSE, ret |-> r.ret,
                       aborted |-> FALSE, out |-> <<>>]
    /\ nops' = nops + 1
    /\ UNCHANGED <<parserVars, lexerVars>>

MergeObjects(keys, added) ==
    /\ nops < MaxOps
    /\ ~last.aborted
    /\ \E r \in {mergeObjects(val, keys, added)} :
           /\ val' = r.val
           /\ last' = [op |-> "mergeObjects", key |-> <<>>, keys |-> keys,
                       arg |-> added, pre |-> val, thrown |-> r.thrown,
                       ret |-> ~r.thrown, aborted |-> FALSE, out |-> <<>>]
    /\ nops' = nops + 1
    /\ UNCHANGED <<parserVars, lexerVars>>

PushArgs == {IntV(1), StringV(kA), BoolV(TRUE)}

ChildKeys == {kA, kB}

Push(v) ==
    /\ nops < MaxOps
    /\ ~last.aborted
    /\ \E r \in {push(val, v)} :
           /\ val' = r.val
           /\ last' = [op |-> "push", key |-> <<>>, keys |-> <<>>, arg |-> v,
                       pre |-> val, thrown |-> r.thrown, ret |-> ~r.thrown,
                       aborted |-> FALSE, out |-> <<>>]
    /\ nops' = nops + 1
    /\ UNCHANGED <<parserVars, lexerVars>>

SetChild(key, v) ==
    /\ nops < MaxOps
    /\ ~last.aborted
    /\ \E r \in {setChild(val, key, v)} :
           /\ val' = r.val
           /\ last' = [op |-> "setChild", key |-> key, keys |-> <<>>,
                       arg |-> v, pre |-> val, thrown |-> r.thrown,
                       ret |-> ~r.thrown, aborted |-> FALSE, out |-> <<>>]
    /\ nops' = nops + 1
    /\ UNCHANGED <<parserVars, lexerVars>>

Index(key) ==
    /\ nops < MaxOps
    /\ ~last.aborted
    /\ \E r \in operatorIndex(val, key) :
           /\ val' = r.val
           /\ last' = [op |-> "operator[]", key |-> key, keys |-> <<>>,
                       arg |-> Null, pre |-> val, thrown |-> r.thrown,
                       ret |-> ~r.thrown /\ ~r.aborted,
                       aborted |-> r.aborted, out |-> <<>>]
    /\ nops' = nops + 1
    /\ UNCHANGED <<parserVars, lexerVars>>

\* v.is<std::vector<T>>() and then v.as<std::vector<T>>() on the Value: ret
\* is what is returned, thrown and out what as did.
AsVector(T) ==
    /\ nops < MaxOps
    /\ ~last.aborted
    /\ \E r \in {asVector(val, T)} :
           last' = [op |-> "asVector", key |-> <<>>, keys |-> <<>>,
                    arg |-> StringV(<<T>>), pre |-> val, thrown |-> r.thrown,
                    ret |-> isVector(val, T), aborted |-> FALSE,
                    out |-> r.out]
    /\ nops' = nops + 1
    /\ UNCHANGED <<val, parserVars, lexerVars>>

----------------------------------------------------------------------------
(* The Parser as a state machine over the token stream *)

\* The inputs: at most MaxTokens tokens before the end of file, quoted keys
\* with arbitrary payloads among the first MaxQuoted of them, at most
\* MaxKeys keys in a statement and MaxDepth parser activations at a time.
MaxTokens == 9
MaxQuoted == 2
MaxKeys == 3
MaxDepth == 4

\* A token as the parser sees it: type, strValue, intValue.
Tok(type, str, int) == [type |-> type, str |-> str, int |-> int]

EOFToken == Tok("END_OF_FILE", <<>>, 0)

\* What Lexer::nextToken can hand to the parser: identifiers, a number, the
\* punctuation, an Illegal token carrying its diagnostic, and quoted
\* strings: one whose payload the key lexer reads as the path a.b, and one
\* it cannot read.
PlainTokens ==
    {Tok("IDENT", kA, 0), Tok("IDENT", kB, 0), Tok("NUMBER", <<>>, 1),
     Tok("ASSIGN", <<"=">>, 0), Tok("LBRACE", <<"{">>, 0),
     Tok("RBRACE", <<"}">>, 0), Tok("LBRACK", <<"[">>, 0),
     Tok("RBRACK", <<"]">>, 0), Tok("COMMA", <<",">>, 0),
     Tok("ILLEGAL", <<"Invalid token">>, 0)}

QuotedTokens == {Tok("STRING", kPath, 0), Tok("STRING", kSlash, 0)}

TokenAlphabet == PlainTokens \cup QuotedTokens

\* removeDelimiter: s without its underscores.
RECURSIVE removeDelimiter(_)
removeDelimiter(s) ==
    IF s = <<>> THEN <<>>
    ELSE IF Head(s) = "_" THEN removeDelimiter(Tail(s))
    ELSE <<Head(s)>> \o removeDelimiter(Tail(s))

\* The number the digits s stand for, x being the number read so far.
RECURSIVE digitsValue(_, _)
digitsValue(s, x) ==
    IF s = <<>> THEN x
    ELSE digitsValue(Tail(s), x * 10 + hexDigit(Head(s)))

\* The decimal digits of the largest int64_t and of the magnitude of the
\* smallest.
Int64MaxDigits ==
    <<"9", "2", "2", "3", "3", "7", "2", "0", "3", "6", "8", "5", "4", "7",
      "7", "5", "8", "0", "7">>

Int64MinDigits ==
    <<"9", "2", "2", "3", "3", "7", "2", "0", "3", "6", "8", "5", "4", "7",
      "7", "5", "8", "0", "8">>

\* The digits s without their leading zeros (one digit is always left).
RECURSIVE stripZeros(_)
stripZeros(s) ==
    IF Len(s) > 1 /\ Head(s) = "0" THEN stripZeros(Tail(s)) ELSE s

\* The number written a is greater than the number written b, neither with
\* leading zeros.
RECURSIVE digitsGreater(_, _)
digitsGreater(a, b) ==
    IF Len(a) # Len(b) THEN Len(a) > Len(b)
    ELSE IF a = <<>> THEN FALSE
    ELSE IF Head(a) # Head(b) THEN hexDigit(Head(a)) > hexDigit(Head(b))
    ELSE digitsGreater(Tail(a), Tail(b))

\* How many decimal digits the model keeps as a number; an int64_t of more
\* digits is kept as its sign and digits.
SmallDigits == 9

\* The int64_t of the given sign and magnitude.
int64(neg, mag) ==
    IF Len(mag) <= SmallDigits
    THEN IF neg THEN 0 - digitsValue(mag, 0) ELSE digitsValue(mag, 0)
    ELSE [neg |-> neg, digits |-> mag]

\* What operator>> stores in x for the magnitude mag: the value when it
\* fits, the nearest limit (with the stream's failbit set, which nextNumber
\* never reads) when it does not.
extracted(neg, mag) ==
    IF digitsGreater(mag, IF neg THEN Int64MinDigits ELSE Int64MaxDigits)
    THEN int64(neg, IF neg THEN Int64MinDigits ELSE Int64MaxDigits)
    ELSE int64(neg, mag)

\* ss >> x on an integer literal s (a sign, then digits).
intValue(s) ==
    IF Head(s) = "-" THEN extracted(TRUE, stripZeros(Tail(s)))
    ELSE IF Head(s) = "+" THEN extracted(FALSE, stripZeros(Tail(s)))
    ELSE extracted(FALSE, stripZeros(s))

\* The Token the lexer builds from what it has read: a Number carries its
\* value, a Bool its truth value, the others their string.
toTok(t) ==
    IF t.type = "NUMBER" THEN Tok("NUMBER", <<>>, intValue(removeDelimiter(t.str)))
    ELSE IF t.type = "BOOL"
    THEN Tok("BOOL", <<>>, IF t.str = <<"t", "r", "u", "e">> THEN 1 ELSE 0)
    ELSE Tok(t.type, t.str, 0)

\* What the k-th call of nextToken() on the stream s returns.
RECURSIVE tokenAt(_, _)
tokenAt(s, k) ==
    IF k = 1 THEN nextToken(s, 1)
    ELSE nextToken(s, tokenAt(s, k - 1).pos)

\* Texts with a byte that starts no token: where a key, a value and a list
\* element are expected.
StrayKeyText == <<"@">>
StrayValueText == <<"a", " ", "=", " ", "@">>
StrayElementText == <<"a", " ", "=", " ", "[", "1", ",", " ", "@">>

\* The texts hcl::parse is run on.
ParseTexts ==
    {HereDocText, IndentedHereDocText, StrayKeyText, StrayValueText,
     StrayElementText}

\* The tokens lexer_.nextToken() may return when n tokens were read and the
\* current one is cur. On a stream holding a text it is the next token of
\* the text. Otherwise any token may come: END_OF_FILE once the input is
\* exhausted, and for ever after.
Draw(cur, n) ==
    IF input.open THEN {toTok(tokenAt(input.text, n + 1))}
    ELSE IF cur.type = "END_OF_FILE" \/ n >= MaxTokens THEN {EOFToken}
    ELSE IF n < MaxQuoted THEN TokenAlphabet \cup {EOFToken}
    ELSE PlainTokens \cup {EOFToken}

\* One activation of a parser function with its locals: node and keys of
\* parseObjectList, a and needComma of parseListType. stmts is a history
\* variable: the statements parseObjectList has merged into node so far.
Frame(fn, isNested, node, keys, a, needComma) ==
    [fn |-> fn, isNested |-> isNested, node |-> node, keys |-> keys,
     a |-> a, needComma |-> needComma, stmts |-> <<>>]

ObjectListFrame(isNested) ==
    Frame("parseObjectList", isNested, EmptyObject, <<>>, <<>>, FALSE)
ObjectTypeFrame == Frame("parseObjectType", FALSE, Null, <<>>, <<>>, FALSE)
ListTypeFrame == Frame("parseListType", FALSE, Null, <<>>, <<>>, FALSE)

Top == stack[Len(stack)]
Pop == SubSeq(stack, 1, Len(stack) - 1)
ReplaceTop(f) == [stack EXCEPT ![Len(stack)] = f]

\* addError losing the reason.
addErrorLost(errorReason, reason) == errorReason

\* Parser::addError: errorReason_ after the call, as the sequence of the
\* reasons it is made of.
addError(errorReason, reason) == Append(errorReason, reason)

\* Parser::parseLiteralType: [ok, value, reason].
parseLiteralType(t) ==
    IF t.type \in {"STRING", "HEREDOC", "IDENT"}
    THEN [ok |-> TRUE, value |-> StringV(t.str), reason |-> <<>>]
    ELSE IF t.type = "BOOL"
    THEN [ok |-> TRUE, value |-> BoolV(t.int # 0), reason |-> <<>>]
    ELSE IF t.type = "NUMBER"
    THEN [ok |-> TRUE, value |-> IntV(t.int), reason |-> <<>>]
    ELSE IF t.type = "FLOAT"
    THEN [ok |-> TRUE, value |-> [t |-> "double", v |-> t.str], reason |-> <<>>]
    ELSE IF t.type = "ILLEGAL"
    THEN [ok |-> FALSE, value |-> Null, reason |-> t.str]
    ELSE [ok |-> FALSE, value |-> Null, reason |-> <<"unexpected token">>]

LiteralTypes == {"NUMBER", "FLOAT", "BOOL", "STRING", "HEREDOC", "IDENT"}

Ret(ok, value, from) == [ok |-> ok, value |-> value, from |-> from]
NoRet == Ret(FALSE, Null, "none")

Running == [state |-> "running", value |-> Null, errorReason |-> <<>>]

Count(n, t) == IF t.type = "END_OF_FILE" THEN n ELSE n + 1

\* The state after `internal::Parser parser(is)`: the constructor has read
\* the first token (an Illegal one when the UTF-8 BOM is cut short). A
\* stream in a bad state is turned away by hcl::parse before that.
ParserInit ==
    /\ pc \in {"parse", "badStream"}
    /\ stack = <<>>
    /\ IF pc = "parse"
       THEN tok \in Draw(Tok("ILLEGAL", <<>>, 0), 0)
                    \cup {Tok("ILLEGAL", <<"Invalid UTF8 BOM">>, 0)}
       ELSE tok = EOFToken
    /\ ntok = Count(0, tok)
    /\ errs = <<>>
    /\ rv = NoRet
    /\ result = Running

\* hcl::parse on a stream in a bad state.
ParseBadStream ==
    /\ pc = "badStream"
    /\ pc' = "done"
    /\ result' = [state |-> "returned", value |-> Null,
                  errorReason |->
                     <<<<"stream is in bad state. file does not exist?">>>>]
    /\ UNCHANGED <<stack, tok, errs, ntok, rv>>

\* Parser::parse: call parseObjectList(false).
Parse ==
    /\ pc = "parse"
    /\ stack' = <<ObjectListFrame(FALSE)>>
    /\ pc' = "parseObjectList"
    /\ UNCHANGED <<tok, errs, ntok, rv, result>>

\* The head of the loop of Parser::parseObjectList.
ParseObjectList ==
    /\ pc = "parseObjectList"
    /\ IF tok.type = "END_OF_FILE" \/ (Top.isNested /\ tok.type = "RBRACE")
       THEN /\ rv' = Ret(TRUE, Top.node, "parseObjectList")
            /\ stack' = Pop
            /\ pc' = "return"
       ELSE /\ stack' = ReplaceTop([Top EXCEPT !.keys = <<>>])
            /\ pc' = "parseKeys"
            /\ UNCHANGED rv
    /\ UNCHANGED <<tok, errs, ntok, result>>

\* Parser::parseKeys, case IDENT / STRING: one more key, next token.
ParseKeysKey ==
    /\ pc = "parseKeys"
    /\ tok.type \in {"IDENT", "STRING"}
    /\ Len(Top.keys) < MaxKeys
    /\ \E t \in Draw(tok, ntok) :
          /\ tok' = t
          /\ ntok' = Count(ntok, t)
    /\ stack' = ReplaceTop([Top EXCEPT !.keys = Append(@, tok.str)])
    /\ UNCHANGED <<pc, errs, rv, result>>

\* The reason parseKeys reports on the token that ends the keys, <<>> if none.
parseKeysError(t, keyCount) ==
    IF t.type = "END_OF_FILE" THEN <<"end of file reached">>
    ELSE IF t.type = "ASSIGN"
         THEN IF keyCount > 1
              THEN <<"nested object expected: LBRACE got: ", t.str>>
              ELSE IF keyCount = 0
              THEN <<"expected to find at least one object key">>
              ELSE <<>>
    ELSE IF t.type = "LBRACE"
         THEN IF keyCount = 0 THEN <<"expected IDENT | STRING got: LBRACE">>
              ELSE <<>>
    ELSE IF t.type = "ILLEGAL" THEN <<"illegal character">>
    ELSE <<"expected IDENT | STRING | ASSIGN | LBRACE got: ", t.str>>

\* A parseKeys that, on a token that is no key, has parseObjectList start
\* its next turn without reading anything.
ParseKeysAgain ==
    /\ pc = "parseKeys"
    /\ tok.type \notin {"IDENT", "STRING"}
    /\ pc' = "parseObjectList"
    /\ UNCHANGED <<stack, tok, errs, ntok, rv, result>>

\* Parser::parseKeys on any other token: the keys end, or the statement is
\* rejected, parseObjectList makes its node invalid and returns it.
ParseKeysEnd ==
    /\ pc = "parseKeys"
    /\ tok.type \notin {"IDENT", "STRING"}
    /\ \E reason \in {parseKeysError(tok, Len(Top.keys))} :
           IF reason = <<>>
           THEN /\ pc' = "parseObjectItem"
                /\ UNCHANGED <<stack, errs, rv>>
           ELSE /\ errs' = addError(errs, reason)
                /\ rv' = Ret(TRUE, Null, "parseObjectList")
                /\ stack' = Pop
                /\ pc' = "return"
    /\ UNCHANGED <<tok, ntok, result>>

\* Parser::parseObjectItem.
ParseObjectItem ==
    /\ pc = "parseObjectItem"
    /\ IF tok.type = "ASSIGN"
       THEN pc' = "parseObject" /\ UNCHANGED <<errs, rv>>
       ELSE IF tok.type = "LBRACE"
       THEN pc' = "parseObjectType" /\ UNCHANGED <<errs, rv>>
       ELSE /\ errs' = addError(errs,
                         <<"Expected start of object ('{') or assignment ('=')">>)
            /\ rv' = Ret(FALSE, Null, "parseObjectItem")
            /\ pc' = "return"
    /\ UNCHANGED <<stack, tok, ntok, result>>

\* Parser::parseObject: read the token after '=' and dispatch on it.
ParseObject ==
    /\ pc = "parseObject"
    /\ \E t \in Draw(tok, ntok) :
          /\ tok' = t
          /\ ntok' = Count(ntok, t)
          /\ IF t.type \in LiteralTypes
             THEN /\ rv' = Ret(TRUE, parseLiteralType(t).value, "parseObject")
                  /\ pc' = "return"
                  /\ UNCHANGED <<stack, errs>>
             ELSE IF t.type = "LBRACE"
             THEN pc' = "parseObjectType" /\ UNCHANGED <<stack, errs, rv>>
             ELSE IF t.type = "LBRACK"
             THEN /\ Len(stack) < MaxDepth
                  /\ stack' = Append(stack, ListTypeFrame)
                  /\ pc' = "parseListType"
                  /\ UNCHANGED <<errs, rv>>
             ELSE /\ errs' = addError(errs,
                               IF t.type = "END_OF_FILE"
                               THEN <<"Reached end of file">>
                               ELSE <<"Unknown token: ", t.str>>)
                  /\ rv' = Ret(FALSE, Null, "parseObject")
                  /\ pc' = "return"
                  /\ UNCHANGED stack
    /\ UNCHANGED result

\* Parser::parseObjectType up to its call of parseObjectList(true).
ParseObjectType ==
    /\ pc = "parseObjectType"
    /\ IF tok.type # "LBRACE"
       THEN /\ errs' = addError(errs, <<"object list did not start with LBRACE">>)
            /\ rv' = Ret(FALSE, Null, "parseObjectType")
            /\ pc' = "return"
            /\ UNCHANGED <<stack, tok, ntok>>
       ELSE /\ Len(stack) + 1 < MaxDepth
            /\ \E t \in Draw(tok, ntok) :
                  /\ tok' = t
                  /\ ntok' = Count(ntok, t)
            /\ stack' = stack \o <<ObjectTypeFrame, ObjectListFrame(TRUE)>>
            /\ pc' = "parseObjectList"
            /\ UNCHANGED <<errs, rv>>
    /\ UNCHANGED result

\* Parser::parseObjectType after parseObjectList(true) has returned result.
ParseObjectTypeResume ==
    /\ pc = "return"
    /\ stack # <<>>
    /\ Top.fn = "parseObjectType"
    /\ IF errs # <<>> /\ tok.type # "RBRACE"
       THEN /\ errs' = addError(errs, <<"failed parsing object list">>)
            /\ rv' = Ret(FALSE, Null, "parseObjectType")
       ELSE IF tok.type # "RBRACE"
       THEN /\ errs' = addError(errs,
                         <<"object expected closing RBRACE got: ", tok.str>>)
            /\ rv' = Ret(FALSE, Null, "parseObjectType")
       ELSE /\ rv' = Ret(TRUE, rv.value, "parseObjectType")
            /\ UNCHANGED errs
    /\ stack' = Pop
    /\ UNCHANGED <<pc, tok, ntok, result>>

Thrown == [state |-> "thrown", value |-> Null, errorReason |-> <<>>]

\* Parser::parseObjectList after parseObjectItem has returned: give up on a
\* failed item, else read on (a comma after the item is skipped) and merge
\* the item into node. An exception of mergeObjects leaves hcl::parse.
ObjectListResume ==
    /\ pc = "return"
    /\ stack # <<>>
    /\ Top.fn = "parseObjectList"
    /\ IF ~rv.ok
       THEN /\ rv' = Ret(TRUE, Null, "parseObjectList")
            /\ stack' = Pop
            /\ UNCHANGED <<pc, tok, ntok, result>>
       ELSE \E t1 \in Draw(tok, ntok) :
            \E t2 \in IF t1.type = "COMMA" THEN Draw(t1, Count(ntok, t1))
                                           ELSE {t1} :
            \E m \in {mergeObjects(Top.node, Top.keys, rv.value)} :
                   /\ tok' = t2
                   /\ ntok' = IF t1.type = "COMMA"
                              THEN Count(Count(ntok, t1), t2)
                              ELSE Count(ntok, t1)
                   /\ rv' = NoRet
                   /\ IF m.thrown
                      THEN /\ pc' = "done"
                           /\ result' = Thrown
                           /\ stack' = <<>>
                      ELSE /\ pc' = "parseObjectList"
                           /\ stack' = ReplaceTop(
                                 [Top EXCEPT !.node = m.val,
                                             !.stmts = Append(@,
                                                [keys |-> Top.keys,
                                                 value |-> rv.value])])
                           /\ UNCHANGED result
    /\ UNCHANGED errs

\* One turn of the loop of Parser::parseListType, up to the call it makes.
ParseListType ==
    /\ pc = "parseListType"
    /\ \E t \in Draw(tok, ntok) :
          /\ tok' = t
          /\ ntok' = Count(ntok, t)
          /\ IF Top.needComma /\ t.type \notin {"COMMA", "RBRACK"}
             THEN /\ errs' = addError(errs,
                     <<"error parsing list, expected comma or list end, got: ",
                       t.str>>)
                  /\ rv' = Ret(FALSE, Null, "parseListType")
                  /\ stack' = Pop
                  /\ pc' = "return"
             ELSE IF t.type \in LiteralTypes
             THEN /\ stack' = ReplaceTop(
                        [Top EXCEPT !.a = Append(@, parseLiteralType(t).value),
                                    !.needComma = TRUE])
                  /\ UNCHANGED <<pc, errs, rv>>
             ELSE IF t.type = "COMMA"
             THEN /\ stack' = ReplaceTop([Top EXCEPT !.needComma = FALSE])
                  /\ UNCHANGED <<pc, errs, rv>>
             ELSE IF t.type = "LBRACE"
             THEN /\ pc' = "parseObjectType"
                  /\ UNCHANGED <<stack, errs, rv>>
             ELSE IF t.type = "LBRACK"
             THEN /\ Len(stack) < MaxDepth
                  /\ stack' = Append(stack, ListTypeFrame)
                  /\ UNCHANGED <<pc, errs, rv>>
             ELSE IF t.type = "RBRACK"
             THEN /\ rv' = Ret(TRUE, ListV(Top.a), "parseListType")
                  /\ stack' = Pop
                  /\ pc' = "return"
                  /\ UNCHANGED errs
             ELSE /\ errs' = addError(errs,
                     <<"unexpected token while parsing list: ", t.str>>)
                  /\ rv' = Ret(FALSE, Null, "parseListType")
                  /\ stack' = Pop
                  /\ pc' = "return"
    /\ UNCHANGED result

\* Parser::parseListType after the parseObjectType or parseListType it
\* called for an element has returned. Only an object element sets needComma.
ListTypeResume ==
    /\ pc = "return"
    /\ stack # <<>>
    /\ Top.fn = "parseListType"
    /\ IF ~rv.ok
       THEN /\ errs' = addError(errs,
                          IF rv.from = "parseObjectType"
                          THEN <<"error parsing object within list">>
                          ELSE <<"error parsing list within list">>)
            /\ rv' = Ret(FALSE, Null, "parseListType")
            /\ stack' = Pop
            /\ UNCHANGED pc
       ELSE /\ stack' = ReplaceTop(
                  [Top EXCEPT !.a = Append(@, rv.value),
                              !.needComma = IF rv.from = "parseObjectType"
                                            THEN TRUE ELSE @])
            /\ rv' = NoRet
            /\ pc' = "parseListType"
            /\ UNCHANGED errs
    /\ UNCHANGED <<tok, ntok, result>>

\* hcl::parse once Parser::parse has returned v: the ParseResult.
ParseReturn ==
    /\ pc = "return"
    /\ stack = <<>>
    /\ pc' = "done"
    /\ result' = [state |-> "returned", value |-> rv.value,
                  errorReason |-> IF valid(rv.value) THEN <<>> ELSE errs]
    /\ UNCHANGED <<stack, tok, errs, ntok, rv>>

\* hcl::parse starts: on any stream of tokens (a bad stream and a stream
\* with a broken BOM among them), or on one of the texts, a good stream
\* without BOM.
Init ==
    /\ input \in {NoStream} \cup {Stream(text) : text \in ParseTexts}
    /\ lexed = NoToken
    /\ ParserInit
    /\ input.open => pc = "parse" /\ tok = toTok(tokenAt(input.text, 1))
    /\ val = Null
    /\ last = NoOp
    /\ nops = 0

Next ==
    \/ ParseBadStream /\ UNCHANGED <<valueVars, lexerVars>>
    \/ Parse /\ UNCHANGED <<valueVars, lexerVars>>
    \/ ParseObjectList /\ UNCHANGED <<valueVars, lexerVars>>
    \/ ParseKeysKey /\ UNCHANGED <<valueVars, lexerVars>>
    \/ ParseKeysEnd /\ UNCHANGED <<valueVars, lexerVars>>
    \/ ParseObjectItem /\ UNCHANGED <<valueVars, lexerVars>>
    \/ ParseObject /\ UNCHANGED <<valueVars, lexerVars>>
    \/ ParseObjectType /\ UNCHANGED <<valueVars, lexerVars>>
    \/ ParseObjectTypeResume /\ UNCHANGED <<valueVars, lexerVars>>
    \/ ObjectListResume /\ UNCHANGED <<valueVars, lexerVars>>
    \/ ParseListType /\ UNCHANGED <<valueVars, lexerVars>>
    \/ ListTypeResume /\ UNCHANGED <<valueVars, lexerVars>>
    \/ ParseReturn /\ UNCHANGED <<valueVars, lexerVars>>

Spec == Init /\ [][Next]_vars

----------------------------------------------------------------------------
(* The other specifications *)

\* The sequences of at most n elements of A.
SeqsUpTo(A, n) == UNION {[1..k -> A] : k \in 0..n}

MaxBody == 4
MaxHere == 5
MaxLexed == 3

\* Streams that start a double-quoted string: the opening quote and every
\* run of at most MaxBody of the characters that matter to the string lexer.
QuotedChars == {"a", "$", "{", "}", "\\", "\n", "\""}

QuotedInputs == {<<"\"">> \o body : body \in SeqsUpTo(QuotedChars, MaxBody)}

\* Streams holding a heredoc of anchor E, plain or indented, at column 0 or
\* 1, with every body of at most MaxHere characters.
HereChars == {"E", "a", " ", "\n"}

HereDocInputs ==
    {pre \o <<"<", "<">> \o dash \o <<"E", "\n">> \o body :
        pre \in {<<>>, <<" ">>}, dash \in {<<>>, <<"-">>},
        body \in SeqsUpTo(HereChars, MaxHere)}

\* Streams of number characters: the runs Lexer::nextNumber collects.
MaxRun == 4

NumberChars == {"1", ".", "e", "E", "_", "-", "+", "T", ":"}

NumberInputs == SeqsUpTo(NumberChars, MaxRun)

\* Integer literals at the limits of int64_t and one past them.
BigNumberInputs ==
    {Int64MaxDigits, Int64MinDigits, <<"-">> \o Int64MinDigits,
     <<"-">> \o Int64MaxDigits \o <<"0">>}

\* Double-quoted strings holding one \x, \u or \U escape, the hex digits
\* drawn so that the code points around 0x7F, 0x7FF, 0xFFFF and 0x10FFFF
\* occur.
EscapeHex == {"0", "7", "8", "F"}

Escape(e, digits) == <<"\"", "\\", e>> \o digits \o <<"\"">>

EscapeInputs ==
    {Escape("x", <<a, b>>) : a, b \in EscapeHex}
    \cup {Escape("u", <<a, b, c, d>>) : a, b, c, d \in EscapeHex}
    \cup {Escape("U", <<"0", "0", m, n, a, b, c, d>>) :
             m, n \in {"0", "1"}, a, b, c, d \in EscapeHex}

LexInputs ==
    QuotedInputs \cup HereDocInputs \cup NumberInputs \cup BigNumberInputs
    \cup EscapeInputs
    \cup {HilBackslash, HilQuote, HilNewline, PlainBackslash, HereDocText,
          IndentedHereDocText}

\* A Lexer on a stream, nextToken() being called on it again and again.
LexInit ==
    /\ input \in {Stream(text) : text \in LexInputs}
    /\ lexed = NoToken
    /\ val = Null
    /\ last = NoOp
    /\ nops = 0
    /\ pc = "idle"
    /\ stack = <<>>
    /\ tok = EOFToken
    /\ errs = <<>>
    /\ ntok = 0
    /\ rv = NoRet
    /\ result = Running

\* A call of nextToken that reads the stream from its start again once the
\* end was reported.
NextTokenRewound ==
    /\ input.open
    /\ ntok < MaxLexed
    /\ lexed' = nextToken(input.text,
                         IF lexed.type = "END_OF_FILE" THEN 1 ELSE lexed.pos)
    /\ ntok' = ntok + 1
    /\ UNCHANGED <<input, pc, stack, tok, errs, rv, result, valueVars>>

\* One call of Lexer::nextToken; ntok counts the calls.
NextToken ==
    /\ input.open
    /\ ntok < MaxLexed
    /\ lexed' = nextToken(input.text, lexed.pos)
    /\ ntok' = ntok + 1
    /\ UNCHANGED <<input, pc, stack, tok, errs, rv, result, valueVars>>

LexNext == NextToken

LexSpec == LexInit /\ [][LexNext]_vars

\* A Value built by the program, no parse going on.
ValueInit ==
    /\ val \in InitValues
    /\ last = NoOp
    /\ nops = 0
    /\ pc = "idle"
    /\ stack = <<>>
    /\ tok = EOFToken
    /\ errs = <<>>
    /\ ntok = 0
    /\ rv = NoRet
    /\ result = Running
    /\ input = NoStream
    /\ lexed = NoToken

ValueNext ==
    \/ \E key \in Keys, v \in SetArgs : Set(key, v)
    \/ \E key \in Keys : Erase(key)
    \/ \E b \in MergeArgs : Merge(b)
    \/ \E keys \in KeyLists, added \in AddedArgs : MergeObjects(keys, added)
    \/ \E v \in PushArgs : Push(v)
    \/ \E key \in ChildKeys, v \in SetArgs : SetChild(key, v)
    \/ \E key \in ChildKeys : Index(key)
    \/ \E T \in ElementTypes : AsVector(T)

ValueSpec == ValueInit /\ [][ValueNext]_vars

----------------------------------------------------------------------------
(* Vocabulary of the properties *)

\* k is a key the key lexer of find and ensureValue reads as one segment
\* that is k itself.
literalPart(k, t1) ==
    /\ t1.type \in {"IDENT", "STRING"}
    /\ t1.str = k
    /\ nextToken(k, t1.pos).type = "END_OF_FILE"

literalKey(k) == literalPart(k, nextToken(k, 1))

literalKeys(keys) == \A i \in DOMAIN keys : literalKey(keys[i])

\* k has the shape of an identifier: a letter or '_', then letters, digits,
\* '_' and '-'.
identShaped(k) ==
    /\ k # <<>>
    /\ isalpha(k[1]) \/ k[1] = "_"
    /\ \A i \in DOMAIN k : isalpha(k[i]) \/ isdigit(k[i]) \/ k[i] \in {"_", "-"}

\* The chain {k2: {k3: ... {kn: v}}} for keys <<k1, ..., kn>>; v when n = 1.
RECURSIVE Chain(_, _)
Chain(keys, v) ==
    IF Len(keys) <= 1 THEN v
    ELSE ObjectV(keys[2] :> Chain(Tail(keys), v))

\* The values (chains) of the statements of stmts whose first key is k, in
\* source order.
RECURSIVE ValuesAt(_, _)
ValuesAt(stmts, k) ==
    IF stmts = <<>> THEN <<>>
    ELSE (IF Head(stmts).keys[1] = k
          THEN <<Chain(Head(stmts).keys, Head(stmts).value)>>
          ELSE <<>>) \o ValuesAt(Tail(stmts), k)

\* The activations of parseObjectList: the object bodies being parsed.
Bodies == {i \in DOMAIN stack : stack[i].fn = "parseObjectList"}

literalBody(f) == \A i \in DOMAIN f.stmts : literalKeys(f.stmts[i].keys)

Returned == result.state = "returned"

----------------------------------------------------------------------------
(* The claims *)

\* C1: whenever parse returns, the Value it returns is an Object, or it is
\* Null and errorReason is non-empty: never a valid non-Object Value, never
\* Null with an empty errorReason.
C1_ObjectOrError ==
    Returned =>
        \/ result.value.t = "object"
        \/ result.value = Null /\ result.errorReason # <<>>

\* parse has returned Null with its reason after reading three tokens or more.
C1_Witness ==
    /\ Returned
    /\ result.value = Null
    /\ result.errorReason # <<>>
    /\ ntok >= 3

\* C2: no partial result: when an error was recorded (addError was called)
\* at any point of the parse, the Value parse returns is Null.
C2_NoPartialResult ==
    (Returned /\ errs # <<>>) => result.value = Null

\* C3: errorReason holds only the first error: once it is non-empty, a later
\* addError leaves it unchanged.
C3_FirstErrorOnly == [][errs # <<>> => errs' = errs]_vars

\* What the rule of C4 leaves at the first key k of pre when inner comes in.
C4_Rule(pre, k, inner) ==
    IF k \notin DOMAIN pre.v THEN inner
    ELSE IF pre.v[k].t = "list" THEN ListV(Append(pre.v[k].v, inner))
    ELSE ListV(<<pre.v[k], inner>>)

C5_ListOf(f, k, vs) ==
    (Len(vs) >= 2 /\ vs[1].t # "list") =>
        /\ k \in DOMAIN f.node.v
        /\ f.node.v[k] = ListV(vs)

C6_Installed(f, k, rank, count) ==
    IF count = 1 THEN f.node.v[k] ELSE f.node.v[k].v[rank]

\* The rule of C6 for the i-th statement of the body f, vs being the values
\* of the statements of f with its first key.
C6_ChainOf(f, i, vs) ==
    (Len(vs) = 1 \/ vs[1].t # "list") =>
        C6_Installed(f, f.stmts[i].keys[1],
                     Len(ValuesAt(SubSeq(f.stmts, 1, i), f.stmts[i].keys[1])),
                     Len(vs))
        = Chain(f.stmts[i].keys, f.stmts[i].value)

RECURSIVE C7_Stored(_, _)
C7_Stored(v, keys) ==
    \/ keys = <<>>
    \/ /\ v.t = "object"
       /\ keys[1] \in DOMAIN v.v
       /\ \/ C7_Stored(v.v[keys[1]], Tail(keys))
          \/ /\ v.v[keys[1]].t = "list"
             /\ \E e \in DOMAIN v.v[keys[1]].v :
                   C7_Stored(v.v[keys[1]].v[e], Tail(keys))

C7_KeysStoredExactly ==
    /\ result.state # "thrown"
    /\ \A b \in Bodies : \A i \in DOMAIN stack[b].stmts :
          C7_Stored(stack[b].node, stack[b].stmts[i].keys)

\* C8: find, set and erase read "a.b" as the path a, b: set("a.b", v) on an
\* Object leaves v at the child b of the child a, and find("a.b") finds
\* nothing in an Object that has the literal key "a.b" and no child a.
C8_DottedPath ==
    /\ (last.op = "set" /\ last.key = kAB /\ last.pre = EmptyObject) =>
          val = ObjectV(kA :> ObjectV(kB :> last.arg))
    /\ (val.t = "object" /\ kAB \in DOMAIN val.v /\ kA \notin DOMAIN val.v) =>
          ~find(val, kAB).found

\* What C9 asks of the entry (k, bv) of b after a.merge(b), pre being a
\* before the call and post after it.
C9_Entry(pre, post, k, bv) ==
    /\ k \in DOMAIN post.v
    /\ bv.t # "object" => post.v[k] = bv
    /\ k \notin DOMAIN pre.v => post.v[k] = bv
    /\ (k \in DOMAIN pre.v /\ pre.v[k].t = "object" /\ bv.t = "object") =>
          /\ post.v[k].t = "object"
          /\ \A k2 \in DOMAIN pre.v[k].v \ DOMAIN bv.v :
                k2 \in DOMAIN post.v[k].v /\ post.v[k].v[k2] = pre.v[k].v[k2]
          /\ \A k2 \in DOMAIN bv.v :
                k2 \in DOMAIN post.v[k].v
                /\ (bv.v[k2].t # "object" => post.v[k].v[k2] = bv.v[k2])

\* C9: after a.merge(b) on two Objects every key of b with a non-Object
\* value, and every key of b that a did not have, holds b's value in a, and
\* every key that held an Object in both holds the merge of the two, a's
\* other entries under it kept, whatever the key string.
C9_Merge ==
    (last.op = "merge" /\ last.pre.t = "object" /\ last.arg.t = "object") =>
        /\ last.ret
        /\ val.t = "object"
        /\ \A k \in DOMAIN last.arg.v : C9_Entry(last.pre, val, k, last.arg.v[k])

\* What C10 asks of set(key, v): the key is there afterwards and holds v.
C10_SetThenGet(key) ==
    /\ ~last.thrown
    /\ has(val, key)
    /\ ~get(val, key).thrown
    /\ get(val, key).val = last.arg

\* C10 as claimed: on a Null or Object Value, for every identifier-shaped
\* key k and every v, after set(k, v) has(k) is true and get(k) is v, and
\* after set("a.b", v) find("a.b") finds v.
C10_SetGet ==
    (/\ last.op = "set"
     /\ last.pre.t \in {"null", "object"}
     /\ identShaped(last.key) \/ last.key = kAB) => C10_SetThenGet(last.key)

\* C10 as amended: the same for every identifier-shaped key other than the
\* words true and false.
C10_SetGetButBools ==
    (/\ last.op = "set"
     /\ last.pre.t \in {"null", "object"}
     /\ (identShaped(last.key) /\ last.key \notin {kTrue, kFalse})
        \/ last.key = kAB) => C10_SetThenGet(last.key)

\* set has replaced the Value an Object held at the key a by another one.
C10_Witness ==
    /\ last.op = "set"
    /\ last.key = kA
    /\ last.pre.t = "object"
    /\ kA \in DOMAIN last.pre.v
    /\ last.pre.v[kA] # last.arg
    /\ val.v[kA] = last.arg

\* C11: erase(path) returns true exactly when find(path) was non-null
\* immediately before the call, and after any erase(path) find(path) returns
\* not-found and has(path) is false.
C11_EraseFind ==
    last.op = "erase" =>
        /\ last.ret <=> find(last.pre, last.key).found
        /\ find(val, last.key) = NoPtr
        /\ ~has(val, last.key)

\* erase has removed an entry one level down, reached by a two-segment path.
C11_Witness ==
    /\ last.op = "erase"
    /\ last.key = kPath
    /\ last.ret
    /\ find(last.pre, kPath) = Ptr(<<kA, kB>>)
    /\ val # last.pre

\* The reasons parseKeys reports when it rejects a statement's keys.
KeyErrors ==
    {"end of file reached", "nested object expected: LBRACE got: ",
     "expected to find at least one object key",
     "expected IDENT | STRING got: LBRACE", "illegal character",
     "expected IDENT | STRING | ASSIGN | LBRACE got: "}

keysRejected == \E i \in DOMAIN errs : errs[i][1] \in KeyErrors

\* C12: a statement is accepted only with exactly one key before = or at
\* least one key before {: when parseKeys has rejected a statement (no key
\* before = or {, two keys or more before =, or a token other than an Ident
\* or a String in key position) parse returns Null with an error.
C12_KeysRejected ==
    (Returned /\ keysRejected) =>
        result.value = Null /\ result.errorReason # <<>>

\* The tokens a list element ends with, and those one starts with.
ListValueEnds == LiteralTypes \cup {"RBRACE", "RBRACK"}

ListValueStarts == LiteralTypes \cup {"LBRACE", "LBRACK"}

\* C13: between [ and ] two consecutive values with no comma between them
\* make the parse fail, whatever the kinds of the two values: when
\* parseListType, the token before being the end of an element, reads the
\* start of another one, it reports an error and returns false.
C13_CommaBetweenValues ==
    [][(/\ pc = "parseListType"
        /\ tok.type \in ListValueEnds
        /\ tok'.type \in ListValueStarts)
       => (pc' = "return" /\ ~rv'.ok /\ errs' # errs)]_vars

\* The reasons hold the string of the token t (addError appends it to the
\* text of the reason).
carriesDiagnostic(reasons, t) ==
    \E i \in DOMAIN reasons : Len(reasons[i]) = 2 /\ reasons[i][2] = t.str

\* C14: when the lexer has yielded an Illegal token, in key position, in
\* value position or inside a list, the parser stops there (the token is
\* still the current one when parse returns), parse returns Null and
\* errorReason contains the diagnostic string of that token.
C14_IllegalDiagnostic ==
    (Returned /\ tok.type = "ILLEGAL") =>
        /\ result.value = Null
        /\ carriesDiagnostic(result.errorReason, tok)

\* The first token of the stream has been lexed, and the stream starts with
\* the quote of a double-quoted string: body is what follows the quote.
FirstLexed == input.open /\ ntok = 1

QuotedBody == Tail(input.text)

\* The depth of interpolation after the character c, as section 4.1 of the
\* specification counts it: a { right after a $ read at depth 0 opens an
\* interpolation, a { in one goes one deeper, a } in one closes a level.
depthAfter(c, depth, dollar) ==
    IF c = "{" /\ (depth > 0 \/ dollar) THEN depth + 1
    ELSE IF c = "}" /\ depth > 0 THEN depth - 1
    ELSE depth

\* braces and dollar after the first n characters of body, each counted as
\* the character it is.
RECURSIVE hilAfter(_, _)
hilAfter(body, n) ==
    IF n = 0 THEN [braces |-> 0, dollar |-> FALSE]
    ELSE [braces |-> depthAfter(body[n], hilAfter(body, n - 1).braces,
                                hilAfter(body, n - 1).dollar),
          dollar |-> body[n] = "$"
                     /\ depthAfter(body[n], hilAfter(body, n - 1).braces,
                                   hilAfter(body, n - 1).dollar) = 0]

\* The first n characters of body are read one by one and leave the string
\* open: no backslash, no quote and no newline outside an interpolation.
stringOpen(body, n) ==
    \A j \in 1..n :
        /\ body[j] # "\\"
        /\ body[j] \in {"\"", "\n"} => hilAfter(body, j).braces > 0

NewlineDiagnostic == <<"found newline while parsing non-HIL string literal">>

\* C15: in a double-quoted string a raw newline read while braces is 0
\* yields an Illegal token, and a raw newline read while braces > 0 is
\* appended to the payload as it is and the lexing of the string goes on
\* (the token does not end there, and a String token holds the characters
\* up to and including the newline).
C15_RawNewline ==
    (FirstLexed /\ input.text # <<>> /\ Head(input.text) = "\"") =>
        \A i \in 1..Len(QuotedBody) :
            (QuotedBody[i] = "\n" /\ stringOpen(QuotedBody, i - 1)) =>
                IF hilAfter(QuotedBody, i - 1).braces = 0
                THEN lexed = Token("ILLEGAL", NewlineDiagnostic, i + 2)
                ELSE /\ lexed # Token("ILLEGAL", NewlineDiagnostic, i + 2)
                     /\ lexed.pos >= i + 2
                     /\ lexed.type = "STRING" =>
                            SubSeq(lexed.str, 1, i) = SubSeq(QuotedBody, 1, i)

\* A string with a newline inside ${ } has been lexed as a String token
\* that holds the newline.
C15_Witness ==
    /\ FirstLexed
    /\ input.text = HilNewline
    /\ lexed.type = "STRING"
    /\ lexed.str = SubSeq(HilNewline, 2, Len(HilNewline) - 1)
    /\ \E i \in DOMAIN lexed.str : lexed.str[i] = "\n"

\* body is one interpolation and the closing quote: ${, characters that
\* are neither a quote nor a newline, and the } that matches.
oneInterpolation(body) ==
    /\ Len(body) >= 4
    /\ body[1] = "$" /\ body[2] = "{"
    /\ body[Len(body)] = "\""
    /\ hilAfter(body, Len(body) - 1).braces = 0
    /\ \A j \in 2..(Len(body) - 2) :
           /\ hilAfter(body, j).braces > 0
           /\ body[j] \notin {"\"", "\n"}

\* C16: the characters between ${ and its matching } appear in the String
\* token's payload exactly as written in the source, backslashes included,
\* together with the surrounding ${ and }.
C16_InterpolationVerbatim ==
    (/\ FirstLexed
     /\ input.text # <<>> /\ Head(input.text) = "\""
     /\ oneInterpolation(QuotedBody)
     /\ lexed.type = "STRING") =>
        lexed.str = SubSeq(QuotedBody, 1, Len(QuotedBody) - 1)

\* What section 4.1 makes of the lines of a heredoc of the given anchor,
\* rest being the characters from position p on: the body lines up to the
\* line that is the anchor and nothing else, each followed by a newline;
\* found is FALSE when the input ends before such a line.
RECURSIVE hereDocLines(_, _, _, _)
hereDocLines(rest, p, anchor, value) ==
    IF SubSeq(rest, p, skipUntilNewLine(rest, p) - 1) = anchor
    THEN [found |-> TRUE, value |-> value]
    ELSE IF skipUntilNewLine(rest, p) > Len(rest)
    THEN [found |-> FALSE, value |-> <<>>]
    ELSE hereDocLines(rest, skipUntilNewLine(rest, p) + 1, anchor,
                      value \o SubSeq(rest, p, skipUntilNewLine(rest, p)))

\* The stream is a plain heredoc of anchor E starting at its first character.
PlainHereDoc ==
    /\ Len(input.text) >= 4
    /\ SubSeq(input.text, 1, 4) = <<"<", "<", "E", "\n">>

\* C17: a heredoc ends only at a line whose entire content is the anchor (a
\* line that merely begins with the anchor does not end it); the Heredoc
\* token's value is the body lines, each followed by a newline (asked here
\* of the heredocs that have a body line); and when the input ends before
\* the anchor line the token is Illegal.
C17_HereDocLines ==
    (FirstLexed /\ PlainHereDoc) =>
        IF hereDocLines(input.text, 5, <<"E">>, <<>>).found
        THEN /\ lexed.type = "HEREDOC"
             /\ hereDocLines(input.text, 5, <<"E">>, <<>>).value # <<>> =>
                    lexed.str
                        = hereDocLines(input.text, 5, <<"E">>, <<>>).value
        ELSE lexed.type = "ILLEGAL"

\* C18: the indented heredoc of parser_test.cpp, body lines and closing
\* anchor indented by 4 spaces, parses successfully with that indentation
\* stripped: hoge = <<-EOF, "    Hello", "      World", "    EOF" yields
\* Object{"hoge": String("Hello\n  World\n")}.
C18_IndentedHereDoc ==
    (Returned /\ input = Stream(IndentedHereDocText)) =>
        /\ result.errorReason = <<>>
        /\ result.value
             = ObjectV(<<"h", "o", "g", "e">> :>
                         StringV(<<"H", "e", "l", "l", "o", "\n", " ", " ",
                                   "W", "o", "r", "l", "d", "\n">>))

\* The Value is a List all of whose elements are of element type T (an empty
\* List among them).
allElements(v, T) ==
    v.t = "list" /\ \A i \in 1..Len(v.v) : v.v[i].t = T

\* C19: is<vector<T>>() is true exactly when the Value is a List that is
\* empty or whose elements are all is<T>(); as<vector<T>>() succeeds in
\* exactly those cases, returning the elements in order, and throws
\* otherwise; so as<vector<T>>() never throws on a Value for which
\* is<vector<T>>() is true.
C19_VectorConversion ==
    last.op = "asVector" =>
        /\ last.ret <=> allElements(last.pre, last.arg.v[1])
        /\ ~last.thrown <=> allElements(last.pre, last.arg.v[1])
        /\ ~last.thrown =>
              last.out = [i \in 1..Len(last.pre.v) |-> last.pre.v[i].v]
        /\ last.ret => ~last.thrown

\* The operations that need a container, and the variant each one needs.
ContainerOps == {"push", "setChild", "set", "operator[]"}

neededVariant(op) == IF op = "push" THEN "list" ELSE "object"

\* C20: no container operation silently changes the variant of a non-Null
\* Value: push on a non-Null non-List Value, and setChild, set or
\* operator[key] on a non-Null non-Object Value, end in a thrown runtime
\* error and leave the variant as it was; on a Null Value push makes it a
\* List and setChild, set and operator[key] make it an Object.
C20_VariantKept ==
    last.op \in ContainerOps =>
        /\ (valid(last.pre) /\ last.pre.t # neededVariant(last.op)) =>
              (last.thrown /\ ~last.aborted /\ val.t = last.pre.t)
        /\ ~valid(last.pre) => val.t = neededVariant(last.op)

\* The Object holding the entries of the Objects a and b, which share no key.
bothEntries(a, b) ==
    ObjectV([k \in DOMAIN a.v \cup DOMAIN b.v |->
                IF k \in DOMAIN a.v THEN a.v[k] ELSE b.v[k]])

\* C21: when mergeObjects installs an Object at a key that already holds an
\* Object, the result at that key is one Object with the entries of both
\* when the two Objects have no key in common (no List is created), and
\* the two-element List of the existing and the new Object only when they
\* share a key.
C21_ObjectsCombined ==
    (/\ last.op = "mergeObjects"
     /\ last.pre.t = "object"
     /\ literalKeys(last.keys)
     /\ last.keys[1] \in DOMAIN last.pre.v
     /\ last.pre.v[last.keys[1]].t = "object"
     /\ Chain(last.keys, last.arg).t = "object") =>
        val.v[last.keys[1]] =
            IF DOMAIN last.pre.v[last.keys[1]].v
                  \cap DOMAIN Chain(last.keys, last.arg).v = {}
            THEN bothEntries(last.pre.v[last.keys[1]],
                             Chain(last.keys, last.arg))
            ELSE ListV(<<last.pre.v[last.keys[1]],
                         Chain(last.keys, last.arg)>>)

\* The c characters of rest from position p on are spaces of the line that
\* starts at p.
indented(rest, p, c) ==
    /\ p + c - 1 < skipUntilNewLine(rest, p)
    /\ \A i \in p..(p + c - 1) : rest[i] = " "

\* What section 4.1 makes of the lines of an indented heredoc that began at
\* column c, rest being the characters from position p on: a line with
\* fewer than c leading spaces is illegal (short); the line that is the anchor
\* once c spaces are removed ends the heredoc (found); every other line gives
\* its characters after the c spaces, followed by a newline.
RECURSIVE indentedLines(_, _, _, _, _)
indentedLines(rest, p, anchor, c, value) ==
    IF p > Len(rest) THEN [short |-> FALSE, found |-> FALSE, value |-> <<>>]
    ELSE IF ~indented(rest, p, c)
    THEN [short |-> TRUE, found |-> FALSE, value |-> <<>>]
    ELSE IF SubSeq(rest, p + c, skipUntilNewLine(rest, p) - 1) = anchor
    THEN [short |-> FALSE, found |-> TRUE, value |-> value]
    ELSE IF skipUntilNewLine(rest, p) > Len(rest)
    THEN [short |-> FALSE, found |-> FALSE, value |-> <<>>]
    ELSE indentedLines(rest, skipUntilNewLine(rest, p) + 1, anchor, c,
                       value \o SubSeq(rest, p + c, skipUntilNewLine(rest, p)))

IndentOpening == <<"<", "<", "-", "E", "\n">>

\* The stream is an indented heredoc of anchor E whose <<- begins at column c.
IndentedHereDoc(c) ==
    /\ Len(input.text) >= c + 5
    /\ \A i \in 1..c : input.text[i] = " "
    /\ SubSeq(input.text, c + 1, c + 5) = IndentOpening

\* The token nextToken returned is what r, the lines of section 4.1, ask for.
indentHonoured(r) ==
    /\ r.short => lexed.type = "ILLEGAL"
    /\ (r.found /\ r.value # <<>>) =>
          (lexed.type = "HEREDOC" /\ lexed.str = r.value)

\* C22: for an indented heredoc whose <<- begins at 0-based column c,
\* exactly c leading spaces are removed from each body line, and a body
\* line with fewer than c leading spaces yields an Illegal token.
C22_IndentColumn ==
    \A c \in 0..1 :
        (FirstLexed /\ IndentedHereDoc(c)) =>
            indentHonoured(indentedLines(input.text, c + 6, <<"E">>, c, <<>>))

\* Position after the digits \d* of s that start at p.
RECURSIVE digitsEnd(_, _)
digitsEnd(s, p) ==
    IF p <= Len(s) /\ s[p] \in Digits THEN digitsEnd(s, p + 1) ELSE p

\* Position after the longest \d+(_\d+)* of s that starts at p; 0 when there
\* is none.
RECURSIVE groupsEnd(_, _)
groupsEnd(s, p) ==
    IF digitsEnd(s, p) = p THEN 0
    ELSE IF /\ digitsEnd(s, p) <= Len(s)
            /\ s[digitsEnd(s, p)] = "_"
            /\ groupsEnd(s, digitsEnd(s, p) + 1) # 0
    THEN groupsEnd(s, digitsEnd(s, p) + 1)
    ELSE digitsEnd(s, p)

\* Position after an optional sign at p.
signEnd(s, p) == IF p <= Len(s) /\ s[p] \in {"+", "-"} THEN p + 1 ELSE p

\* s matches [+-]?\d+(_\d+)*.
matchesInteger(s) == groupsEnd(s, signEnd(s, 1)) = Len(s) + 1

\* Position after the optional (\d+(_\d+)*)? at p.
integerPartEnd(s, p) == IF groupsEnd(s, p) = 0 THEN p ELSE groupsEnd(s, p)

\* The optional (\.\d+(_\d+)*)? at p is there.
hasFraction(s, p) == p <= Len(s) /\ s[p] = "." /\ groupsEnd(s, p + 1) # 0

fractionEnd(s, p) == IF hasFraction(s, p) THEN groupsEnd(s, p + 1) ELSE p

\* The optional ([eE][+-]?\d+(_\d+)*)? at p is there.
hasExponent(s, p) ==
    /\ p <= Len(s)
    /\ s[p] \in {"e", "E"}
    /\ groupsEnd(s, signEnd(s, p + 1)) # 0

exponentEnd(s, p) ==
    IF hasExponent(s, p) THEN groupsEnd(s, signEnd(s, p + 1)) ELSE p

\* s matches [+-]?(\d+(_\d+)*)?(\.\d+(_\d+)*)?([eE][+-]?\d+(_\d+)*)? with a
\* fraction or an exponent present, p being the position after the integer
\* part.
matchesFrom(s, p) ==
    /\ exponentEnd(s, fractionEnd(s, p)) = Len(s) + 1
    /\ hasFraction(s, p) \/ hasExponent(s, fractionEnd(s, p))

matchesDouble(s) == matchesFrom(s, integerPartEnd(s, signEnd(s, 1)))

\* The kind of token section 4.1 gives the numeric run s.
runKind(s) ==
    IF matchesInteger(s) THEN "NUMBER"
    ELSE IF matchesDouble(s) THEN "FLOAT"
    ELSE "ILLEGAL"

\* The stream is one run of number characters that nextNumber collects
\* whole: it starts with a digit or ':', or with '-' or '.' before a digit.
NumericRun ==
    /\ input.text \in NumberInputs
    /\ input.text # <<>>
    /\ \/ input.text[1] \in Digits \cup {":"}
       \/ /\ input.text[1] \in {"-", "."}
          /\ Len(input.text) >= 2
          /\ input.text[2] \in Digits

\* C23: for every numeric run s collected by the lexer the token is Number
\* iff s matches [+-]?\d+(_\d+)*, Float iff s is not an integer and matches
\* [+-]?(\d+(_\d+)*)?(\.\d+(_\d+)*)?([eE][+-]?\d+(_\d+)*)? with at least one
\* fractional or exponent component present, and Illegal otherwise (any
\* run containing T or ':' included).
C23_NumericRuns ==
    (FirstLexed /\ NumericRun) => lexed.type = runKind(input.text)

\* The integer literals of BigNumberInputs whose value does not fit a 64-bit
\* signed integer: 2^63, and -(2^63 - 1) * 10.
OverflowLiterals ==
    {Int64MinDigits, <<"-">> \o Int64MaxDigits \o <<"0">>}

\* C24: an integer literal whose value does not fit a 64-bit signed integer
\* is lexed as an Illegal token, never as a Number token carrying a clamped
\* or wrapped value.
C24_OverflowIllegal ==
    (FirstLexed /\ input.text \in OverflowLiterals) =>
        /\ lexed.type = "ILLEGAL"
        /\ lexed.type # "NUMBER"

\* C25: once nextToken has returned EndOfFile, every later nextToken call on
\* the same lexer returns EndOfFile.
C25_EndOfFileForever ==
    [][lexed.type = "END_OF_FILE" => lexed'.type = "END_OF_FILE"]_vars

\* A third call has returned EndOfFile after the second one did, on a stream
\* whose first token was not EndOfFile.
C25_Witness ==
    /\ input.open
    /\ ntok = 3
    /\ tokenAt(input.text, 1).type # "END_OF_FILE"
    /\ tokenAt(input.text, 2).type = "END_OF_FILE"
    /\ lexed.type = "END_OF_FILE"

\* The number the hex digits s denote, x being the number read so far.
RECURSIVE codePointOf(_, _)
codePointOf(s, x) ==
    IF s = <<>> THEN x
    ELSE codePointOf(Tail(s), x * 16 + hexDigit(Head(s)))

\* The bytes of the UTF-8 encoding of the code point x.
utf8(x) ==
    IF x <= 127 THEN <<x>>
    ELSE IF x <= 2047 THEN <<192 + (x \div 64), 128 + (x % 64)>>
    ELSE IF x <= 65535
    THEN <<224 + (x \div 4096), 128 + ((x \div 64) % 64), 128 + (x % 64)>>
    ELSE <<240 + (x \div 262144), 128 + ((x \div 4096) % 64),
           128 + ((x \div 64) % 64), 128 + (x % 64)>>

\* The string of the bytes b.
bytesString(b) == [i \in 1..Len(b) |-> byteChar(b[i])]

\* The hex digits of the escape the stream holds.
EscapeDigits == SubSeq(input.text, 4, Len(input.text) - 1)

\* C26: for every \xNN, \uNNNN or \UNNNNNNNN escape in a double-quoted
\* string whose hex digits denote a code point x with 0 <= x <= 0x10FFFF,
\* the bytes appended to the payload are exactly the UTF-8 encoding of x:
\* one byte for x <= 0x7F, two for x <= 0x7FF, three for x <= 0xFFFF, four
\* otherwise.
C26_EscapeUtf8 ==
    (/\ FirstLexed
     /\ input.text \in EscapeInputs
     /\ codePointOf(EscapeDigits, 0) < CodePointEnd) =>
        /\ lexed.type = "STRING"
        /\ lexed.str = bytesString(utf8(codePointOf(EscapeDigits, 0)))

\* What is left to read: the tokens that may still come (a text of n bytes
\* holds at most n of them before its EndOfFile or Illegal), and the current
\* token itself when the lexer has consumed it (neither EndOfFile nor
\* Illegal).
Unread ==
    (IF input.open THEN Len(input.text) + 1 ELSE MaxTokens) - ntok
    + (IF tok.type \in {"END_OF_FILE", "ILLEGAL"} THEN 0 ELSE 1)

\* How far the parser is from returning while nothing is read: the functions
\* in the order they call each other, then the returns, frame by frame, then
\* the head of the loop of parseListType, which reads first thing.
Stage ==
    IF pc \in {"parse", "badStream"} THEN MaxDepth + 8
    ELSE IF pc = "parseObjectList" THEN MaxDepth + 7
    ELSE IF pc = "parseKeys" THEN MaxDepth + 6
    ELSE IF pc = "parseObjectItem" THEN MaxDepth + 5
    ELSE IF pc = "parseObject" THEN MaxDepth + 4
    ELSE IF pc = "parseObjectType" THEN MaxDepth + 3
    ELSE IF pc = "return" THEN Len(stack) + 2
    ELSE IF pc = "parseListType" THEN 1
    ELSE 0

\* C27: for every finite input Parser::parse terminates: every step of the
\* lexer and of the parser consumes input or returns, a byte that starts no
\* token (nextToken returns Illegal without consuming it) included. Every
\* step of the parse either leaves less to read or, reading nothing, brings
\* the parser closer to its return, so no run goes on for ever.
C27_ParseTerminates ==
    [][\/ Unread' < Unread
       \/ Unread' = Unread /\ Stage' < Stage]_vars

\* The parse has returned on the text whose list holds a byte that starts no
\* token, the lexer having returned Illegal at that byte without moving.
C27_Witness ==
    /\ Returned
    /\ input = Stream(StrayElementText)
    /\ tok.type = "ILLEGAL"
    /\ nextToken(input.text, tokenAt(input.text, ntok).pos).type = "ILLEGAL"
    /\ nextToken(input.text, tokenAt(input.text, ntok).pos).pos
          = tokenAt(input.text, ntok).pos

\* braces and dollar of nextStringDoubleQuote once the character c has been
\* read with the counter at st.
counterStep(c, st) ==
    [braces |-> bracesAfter(c, st.braces, st.dollar),
     dollar |-> bracesAfter(c, st.braces, st.dollar) = 0 /\ c = "$"]

\* The counter after the first n characters of body, each read by one turn
\* of the loop.
RECURSIVE counterAfter(_, _)
counterAfter(body, n) ==
    IF n = 0 THEN [braces |-> 0, dollar |-> FALSE]
    ELSE counterStep(body[n], counterAfter(body, n - 1))

\* The loop is still running after the first n characters of body, each read
\* by one turn: no backslash, and no quote and no newline read at braces 0.
loopRuns(body, n) ==
    \A j \in 1..n :
        /\ body[j] # "\\"
        /\ body[j] \in {"\"", "\n"} => counterAfter(body, j).braces > 0

\* The turn of the loop that reads the n-th character of body.
counterLawful(body, n) ==
    /\ counterAfter(body, n).braces >= 0
    /\ (counterAfter(body, n - 1).braces = 0
        /\ counterAfter(body, n).braces > 0) =>
           /\ body[n] = "{"
           /\ n >= 2
           /\ body[n - 1] = "$"
           /\ counterAfter(body, n - 2).braces = 0
    /\ (body[n] = "\"" /\ counterAfter(body, n).braces > 0) =>
           /\ ~(lexed.type = "STRING" /\ lexed.pos = n + 2)
           /\ lexed.type = "STRING" =>
                  /\ lexed.pos > n + 2
                  /\ lexed.str[n] = "\""

\* C28: while a double-quoted string is lexed, braces is never negative; it
\* rises from 0 only on a { right after a $ read at braces 0; a String token
\* is returned only at a quote read while braces is 0, so a closing quote
\* read while braces > 0 never ends the string, and an interpolation left
\* open up to the end of the input yields Illegal.
C28_BracesCounter ==
    (FirstLexed /\ input.text # <<>> /\ Head(input.text) = "\"") =>
        /\ \A n \in 1..Len(QuotedBody) :
               (loopRuns(QuotedBody, n - 1) /\ QuotedBody[n] # "\\") =>
                   counterLawful(QuotedBody, n)
        /\ (lexed.type = "STRING"
            /\ \A j \in 1..(lexed.pos - 2) : QuotedBody[j] # "\\") =>
               /\ QuotedBody[lexed.pos - 2] = "\""
               /\ counterAfter(QuotedBody, lexed.pos - 2).braces = 0
               /\ loopRuns(QuotedBody, lexed.pos - 3)
        /\ (loopRuns(QuotedBody, Len(QuotedBody))
            /\ counterAfter(QuotedBody, Len(QuotedBody)).braces > 0) =>
               lexed = Token("ILLEGAL", <<"string didn't end">>,
                             Len(input.text) + 1)

\* A quote inside ${ } has been read without ending the string: the String
\* token ends at the quote after the closing brace and holds the inner ones.
C28_Witness ==
    /\ FirstLexed
    /\ input.text = HilQuote
    /\ counterAfter(QuotedBody, 3).braces = 1
    /\ lexed = Token("STRING", SubSeq(HilQuote, 2, Len(HilQuote) - 1),
                     Len(HilQuote) + 1)

\* C29: if set(path, v) fails with a runtime error (invalid key string, or
\* an intermediate segment that exists but is not an Object), the Value it
\* was called on is equal to what it was before the call: no intermediate
\* Object has been created and a Null target has not been turned into an
\* Object.
C29_FailedSetKeeps ==
    (last.op = "set" /\ last.thrown) => val = last.pre

\* The entries of pre whose key does not occur in b hold their prior value
\* in post, and so, level by level, under every key that holds an Object in
\* pre and in b.
RECURSIVE entriesKept(_, _, _)
entriesKept(pre, post, b) ==
    /\ post.t = "object"
    /\ \A k \in DOMAIN pre.v \ DOMAIN b.v :
           k \in DOMAIN post.v /\ post.v[k] = pre.v[k]
    /\ \A k \in DOMAIN pre.v \cap DOMAIN b.v :
           (pre.v[k].t = "object" /\ b.v[k].t = "object") =>
               /\ k \in DOMAIN post.v
               /\ entriesKept(pre.v[k], post.v[k], b.v[k])

\* C30: a.merge(b) never modifies b, leaves every entry of a whose key does
\* not occur in b (at the same nesting level) with its prior value, and
\* returns true whenever both a and b are Objects.
C30_MergeFrame ==
    (last.op = "merge" /\ last.pre.t = "object" /\ last.arg.t = "object") =>
        /\ last.ret
        /\ entriesKept(last.pre, val, last.arg)

====
